---- MODULE Spec2Model ----
(***************************************************************************)
(* RainPro backend: the rainfall forecast pipeline.                        *)
(*                                                                         *)
(*   - the interactive workflow of agents/rainfall_graph.py as started by  *)
(*     app/routers/user_input.py (post_user_input);                        *)
(*   - feature engineering (agents/preprocessing_agent.py);                *)
(*   - the autoregressive forecast loop (agents/prediction_agent.py).      *)
(*                                                                         *)
(* Numbers.  Rainfall and raw field values are fixed-point integers in     *)
(* units of 1/10000 (so 1.7183 is 17183).  Values of the log domain        *)
(* (log1p of a field) are whole numbers -2..4; expm1 and log1p are the     *)
(* tables of the real functions on that grid.  Rolling means and standard  *)
(* deviations of log values are in thousandths.                            *)
(***************************************************************************)
EXTENDS Integers, Sequences, FiniteSets, TLC

\* ------------------------------------------------------------------------
\* Bounds of the model
\* ------------------------------------------------------------------------
MaxRawLen == 23
NumPatterns == 5
MaxHorizon == 3

\* ------------------------------------------------------------------------
\* Program constants
\* ------------------------------------------------------------------------
\* np.nan
NaN == -99999999
\* the provider's missing-value flag -999.0
SENTINEL == -9990000
\* required window length, daily and monthly
DAILY_WINDOW == 15
MONTHLY_WINDOW == 7
\* trailing span of the rolling features, daily and monthly
DAILY_ROLLING == 7
MONTHLY_ROLLING == 3
\* how many historical points the forecast loop puts in its rolling list
DAILY_LOOP_TAIL == 6
MONTHLY_LOOP_TAIL == 2
\* defaults of intent.get("days", 7) and intent.get("months", 6)
DEFAULT_DAYS == 7
DEFAULT_MONTHS == 6

\* FEATURES: the raw covariates (two of the eleven, all treated alike)
FEATURES == <<"RH2M", "T2M">>
TARGET_COL == "PRECTOTCORR"
LOG_TARGET == "log_PRECTOTCORR"

Range(s) == {s[i] : i \in DOMAIN s}
RequiredCols == Range(FEATURES) \cup {TARGET_COL}

WindowSize(mode) == IF mode = "daily" THEN DAILY_WINDOW ELSE MONTHLY_WINDOW
RollingSpan(mode) == IF mode = "daily" THEN DAILY_ROLLING ELSE MONTHLY_ROLLING
\* the loop's rolling list had it taken as many historical points as the
\* span, before adding the new one
LoopTailSpan(mode) == IF mode = "daily" THEN DAILY_ROLLING ELSE MONTHLY_ROLLING
LoopTail(mode) == IF mode = "daily" THEN DAILY_LOOP_TAIL ELSE MONTHLY_LOOP_TAIL

\* ------------------------------------------------------------------------
\* Arithmetic
\* ------------------------------------------------------------------------
\* F(x), where x is evaluated once, before F is applied to its value
Let(F(_), x) == CHOOSE r \in {F(v) : v \in {x}} : TRUE

RECURSIVE SumTo(_, _)
SumTo(s, k) == IF k = 0 THEN 0 ELSE s[k] + SumTo(s, k - 1)
SumSeq(s) == SumTo(s, Len(s))

RECURSIVE ISqrt(_)
ISqrt(n) ==
    IF n < 2 THEN n
    ELSE LET small == 2 * ISqrt(n \div 4)
             large == small + 1
         IN IF large * large > n THEN small ELSE large

\* np.expm1 on the log grid, in 1/10000
Expm1(l) ==
    CASE l = NaN -> NaN
      [] l = -2 -> -8647
      [] l = -1 -> -6321
      [] l = 0 -> 0
      [] l = 1 -> 17183
      [] l = 2 -> 63891
      [] l = 3 -> 190855
      [] l = 4 -> 535982

LogGrid == -2..4

\* np.log1p: NaN below -1.0, else the inverse of expm1
Log1p(x) ==
    IF x = NaN \/ x < -10000 THEN NaN
    ELSE CHOOSE l \in LogGrid : Expm1(l) = x

\* np.mean of a list, in thousandths: NaN when the list holds a NaN
Mean(vals) ==
    Let(LAMBDA v : IF \E j \in DOMAIN v : v[j] = NaN THEN NaN
                   ELSE (SumSeq(v) * 1000) \div Len(v),
        vals)

\* standard deviation with ddof degrees of freedom removed, in thousandths:
\* NaN when the list holds a NaN
Std(vals, ddof) ==
    Let(LAMBDA v :
          LET n == Len(v)
              sq == SumSeq([i \in 1..n |-> v[i] * v[i]])
              s == SumSeq(v)
          IN IF \E j \in DOMAIN v : v[j] = NaN THEN NaN
             ELSE ISqrt(((n * sq - s * s) * 1000000) \div (n * (n - ddof))),
        vals)

TailN(s, n) ==
    Let(LAMBDA v : IF Len(v) <= n THEN v ELSE SubSeq(v, Len(v) - n + 1, Len(v)), s)

\* ------------------------------------------------------------------------
\* Raw series (the data provider's table)
\* ------------------------------------------------------------------------
\* A DataFrame is [cols |-> the set of its columns, rows |-> its rows in
\* time order, each a function from cols to values].  No table (None) and the
\* empty table are handled alike by every reader (df is None or df.empty).
NoDF == [cols |-> {}, rows |-> <<>>]

RawPatterns == 1..NumPatterns
RawLens == 0..MaxRawLen

\* rainfall of row i under pattern pat: a constant, a series with gaps
\* flagged -999.0, a ramp, or a column flagged missing throughout
RawTarget(pat, i) ==
    CASE pat = 1 -> 17183
      [] pat = 2 -> IF i % 5 = 0 THEN SENTINEL
                    ELSE IF i % 2 = 0 THEN 63891 ELSE 0
      [] pat = 5 -> SENTINEL
      [] OTHER -> Expm1((i * pat) % 3)

\* a covariate of row i: pattern 4 has a negative reading (-5.0) in its
\* last row
RawFeature(pat, col, i, n) ==
    IF pat = 4 /\ col = "T2M" /\ i = n THEN -50000
    ELSE IF col = "RH2M" THEN 63891 ELSE 17183

\* pattern 3 comes without the T2M column
RawCols(pat) == IF pat = 3 THEN RequiredCols \ {"T2M"} ELSE RequiredCols

RawSeries(pat, n) ==
    [cols |-> RawCols(pat),
     rows |-> [i \in 1..n |->
                 [c \in RawCols(pat) |->
                    IF c = TARGET_COL THEN RawTarget(pat, i)
                    ELSE RawFeature(pat, c, i, n)]]]

\* ------------------------------------------------------------------------
\* Feature engineering (preprocessing_agent)
\* ------------------------------------------------------------------------
\* df[col] = 0 for every required column the table lacks
CompleteColumns(df) ==
    Let(LAMBDA d :
          [cols |-> d.cols \cup RequiredCols,
           rows |-> [i \in 1..Len(d.rows) |->
                       [c \in d.cols \cup RequiredCols |->
                          IF c \in d.cols THEN d.rows[i][c] ELSE 0]]],
        df)

ReplaceSentinel(v) == IF v = SENTINEL THEN NaN ELSE v

\* Series.ffill: a missing value takes the last known value before it
RECURSIVE FfillAt(_, _)
FfillAt(s, i) ==
    IF i = 0 THEN NaN
    ELSE IF s[i] # NaN THEN s[i]
    ELSE FfillAt(s, i - 1)
Ffill(s) == Let(LAMBDA v : [i \in 1..Len(v) |-> FfillAt(v, i)], s)

\* Series.bfill: a missing value takes the first known value after it
RECURSIVE BfillAt(_, _)
BfillAt(s, i) ==
    IF i > Len(s) THEN NaN
    ELSE IF s[i] # NaN THEN s[i]
    ELSE BfillAt(s, i + 1)
Bfill(s) == Let(LAMBDA v : [i \in 1..Len(v) |-> BfillAt(v, i)], s)

\* the table whose columns are given as series
FromColumns(cols, n, series) ==
    [cols |-> cols,
     rows |-> [i \in 1..n |-> [c \in cols |-> series[c][i]]]]

\* df.replace(-999.0, np.nan).ffill().bfill(), column by column
RepairMissing(df) ==
    Let(LAMBDA d :
          Let(LAMBDA series : FromColumns(d.cols, Len(d.rows), series),
              [c \in d.cols |->
                 Bfill(Ffill([i \in 1..Len(d.rows) |->
                                ReplaceSentinel(d.rows[i][c])]))]),
        df)

\* fillna(0) then clip(lower=0)
FillClip(v) == IF v = NaN THEN 0 ELSE IF v < 0 THEN 0 ELSE v

\* daily mode only: every required column filled and clipped
DailyClean(df) ==
    Let(LAMBDA d :
          [cols |-> d.cols,
           rows |-> [i \in 1..Len(d.rows) |->
                       [c \in d.cols |->
                          IF c \in RequiredCols THEN FillClip(d.rows[i][c])
                          ELSE d.rows[i][c]]]],
        df)

LogName(col) == IF col = "RH2M" THEN "log_RH2M" ELSE "log_T2M"

\* final_features: the log covariates, the lags, the rolling features
final_features_list ==
    [i \in 1..Len(FEATURES) |-> LogName(FEATURES[i])]
      \o <<"log_PRECTOTCORR_lag1", "log_PRECTOTCORR_lag3",
           "log_PRECTOTCORR_lag7", "rain_rolling_mean", "rain_rolling_std">>

\* the columns of the window: final_features + ["log_PRECTOTCORR"]
WindowCols == final_features_list \o <<LOG_TARGET>>

\* Series.shift(lag)
Shift(s, lag, i) == IF i - lag >= 1 THEN s[i - lag] ELSE NaN

\* Series.rolling(window=span).mean() and .std() (sample deviation)
RollingVals(s, span, i) == [j \in 1..span |-> s[i - span + j]]
HasNaN(vals) == \E j \in DOMAIN vals : vals[j] = NaN
RollingMean(s, span, i) ==
    IF i < span THEN NaN
    ELSE Let(LAMBDA vals : IF HasNaN(vals) THEN NaN ELSE Mean(vals),
             RollingVals(s, span, i))
RollingStd(s, span, i) ==
    IF i < span THEN NaN
    ELSE Let(LAMBDA vals : IF HasNaN(vals) THEN NaN ELSE Std(vals, 1),
             RollingVals(s, span, i))

\* the columns feature engineering adds, as series over the rows
FeatureColumns(logt, mode) ==
    [lag1 |-> [i \in 1..Len(logt) |-> Shift(logt, 1, i)],
     lag3 |-> [i \in 1..Len(logt) |-> Shift(logt, 3, i)],
     lag7 |-> [i \in 1..Len(logt) |-> Shift(logt, 7, i)],
     mean |-> [i \in 1..Len(logt) |-> RollingMean(logt, RollingSpan(mode), i)],
     std |-> [i \in 1..Len(logt) |-> RollingStd(logt, RollingSpan(mode), i)]]

\* the rows of the table with the log columns and the added columns: the
\* raw columns stay in it, so dropna() looks at them too
FeatureRows(df, logt, added) ==
    [i \in 1..Len(df.rows) |->
       [c \in Range(WindowCols) \cup df.cols |->
          CASE c \in df.cols -> df.rows[i][c]
            [] c = LOG_TARGET -> logt[i]
            [] c = "log_RH2M" -> Log1p(df.rows[i]["RH2M"])
            [] c = "log_T2M" -> Log1p(df.rows[i]["T2M"])
            [] c = "log_PRECTOTCORR_lag1" -> added.lag1[i]
            [] c = "log_PRECTOTCORR_lag3" -> added.lag3[i]
            [] c = "log_PRECTOTCORR_lag7" -> added.lag7[i]
            [] c = "rain_rolling_mean" -> added.mean[i]
            [] c = "rain_rolling_std" -> added.std[i]]]

\* log1p of the target and of the covariates, then the lags and the rolling
\* features of the log target
FeatureTable(df, mode) ==
    Let(LAMBDA d :
          Let(LAMBDA logt :
                Let(LAMBDA added : FeatureRows(d, logt, added),
                    FeatureColumns(logt, mode)),
              [i \in 1..Len(d.rows) |-> Log1p(d.rows[i][TARGET_COL])]),
        df)

\* df.dropna(): the rows without any NaN, in order
NoNaN(row) == \A c \in DOMAIN row : row[c] # NaN
DropNa(rows) == SelectSeq(rows, NoNaN)

\* df[final_features + ["log_PRECTOTCORR"]]
SelectWindowCols(rows) ==
    Let(LAMBDA r : [i \in 1..Len(r) |-> [c \in Range(WindowCols) |-> r[i][c]]],
        rows)

\* the rows left after cleaning and dropna()
UsableRows(df, mode) ==
    LET repaired == RepairMissing(CompleteColumns(df))
    IN DropNa(FeatureTable(IF mode = "daily" THEN DailyClean(repaired)
                           ELSE repaired,
                           mode))

\* ------------------------------------------------------------------------
\* The scaler artifact: a fitted column-wise min-max transform
\* ------------------------------------------------------------------------
\* data_min_ of the fitted scaler (the same for every column, unit span)
ScalerMin == 1
ScalerTransformRow(row) ==
    [c \in DOMAIN row |-> IF row[c] = NaN THEN NaN ELSE row[c] - ScalerMin]
ScalerTransform(rows) ==
    Let(LAMBDA r : [i \in 1..Len(r) |-> ScalerTransformRow(r[i])], rows)
ScalerInverseRow(row) ==
    [c \in DOMAIN row |-> IF row[c] = NaN THEN NaN ELSE row[c] + ScalerMin]

\* ------------------------------------------------------------------------
\* The workflow state (the dict threaded through the agents)
\* ------------------------------------------------------------------------
\* A key that is absent (or None) holds the empty value of its type: "" for
\* texts, 0 for ids and counts, <<>> for lists and tables.
NoError == ""
NoIntent == [mode |-> "absent", days |-> 0, months |-> 0, confidence |-> 0]

EmptyState ==
    [session_id |-> 0, user_id |-> 0, user_query |-> "",
     intent |-> NoIntent, nasa_parameters |-> NoDF,
     preprocessed_data |-> <<>>, preprocessed_window |-> <<>>,
     scaled |-> <<>>, final_features |-> <<>>,
     error |-> NoError, forecasts |-> <<>>, monthly_forecasts |-> <<>>,
     prediction_interpretation |-> "", status |-> ""]

\* str.lower() on the mode texts that occur
Lower(m) ==
    CASE m = "Daily" -> "daily"
      [] m = "MONTHLY" -> "monthly"
      [] OTHER -> m

\* intent.get("mode", "daily").lower()
ModeOf(intent) == IF intent.mode = "absent" THEN "daily" ELSE Lower(intent.mode)

\* ------------------------------------------------------------------------
\* preprocessing_agent
\* ------------------------------------------------------------------------
\* ext: what the environment does in this call
\*   scaler_load_ok  joblib.load(scaler_path) returns
\*   scaling_ok      scaler.transform(window) returns
\* the length check when it lets a series one row short pass
WindowThresholdLoose(mode) == WindowSize(mode) - 1

\* len(df) < 15 (daily), len(df) < 7 (monthly)
WindowThreshold(mode) == WindowSize(mode)

InsufficientData(mode) ==
    IF mode = "daily" THEN "Not enough data to make daily prediction."
    ELSE "Not enough data to compute lag7 for monthly prediction."

\* the state returned once feature engineering left the rows usable;
\* "df[col] = 0" wrote the missing columns into the table the state holds,
\* so the returned state carries them too
Preprocessed(state, ext, mode, usable) ==
    IF Len(usable) < WindowThreshold(mode)
    THEN [state EXCEPT !.nasa_parameters = CompleteColumns(state.nasa_parameters),
                       !.error = InsufficientData(mode)]
    ELSE IF ~ext.scaling_ok
    THEN [state EXCEPT !.nasa_parameters = CompleteColumns(state.nasa_parameters),
                       !.error = "Scaling failed"]
    ELSE Let(LAMBDA window :
               Let(LAMBDA scaled :
                     [state EXCEPT
                        !.nasa_parameters = CompleteColumns(state.nasa_parameters),
                        !.scaled = scaled,
                        !.final_features = final_features_list,
                        !.preprocessed_data = scaled,
                        !.preprocessed_window = window],
                   ScalerTransform(window)),
             TailN(SelectWindowCols(usable), WindowSize(mode)))

PreprocessingAgent(state, ext) ==
    LET mode == ModeOf(state.intent)
        df == state.nasa_parameters
    IN IF df.rows = <<>>
       THEN [state EXCEPT !.error = "No NASA data found in state."]
       ELSE IF ~ext.scaler_load_ok
       THEN [state EXCEPT !.error = "Failed to load scaler"]
       ELSE IF mode \notin {"daily", "monthly"}
       THEN [state EXCEPT !.nasa_parameters = CompleteColumns(df),
                          !.error = "Invalid mode. Expected 'daily' or 'monthly'."]
       ELSE Let(LAMBDA usable : Preprocessed(state, ext, mode, usable),
                UsableRows(df, mode))

PreprocessExt == [scaler_load_ok : BOOLEAN, scaling_ok : BOOLEAN]

\* ------------------------------------------------------------------------
\* model_prediction_agent
\* ------------------------------------------------------------------------
NumPredictors == 4
Predictors == 1..NumPredictors

\* model.predict(X_input)[0][0]: a trained model is a fixed function of its
\* input; pid picks one
Predict(pid, X_input) ==
    CASE pid = 1 -> 0
      [] pid = 2 -> -3
      [] pid = 3 -> X_input[Len(X_input)][LOG_TARGET]
      [] pid = 4 -> NaN
      [] OTHER -> 2

\* max(0.0, x): a NaN second argument leaves the first
Max0(x) == IF x = NaN THEN 0 ELSE IF x > 0 THEN x ELSE 0

\* pred_log of inverse_transform_prediction: the prediction is put in the
\* last column of a copy of the last scaled row, the row is un-scaled and
\* its last column read back
InverseLog(pred_scaled, last_row_scaled) ==
    LET temp == [last_row_scaled EXCEPT ![LOG_TARGET] = pred_scaled]
    IN ScalerInverseRow(temp)[LOG_TARGET]

\* inverse_transform_prediction when it returns expm1(pred_log) as it is
InverseTransformUnclipped(pred_scaled, last_row_scaled, inv_ok) ==
    IF ~inv_ok THEN 0
    ELSE Expm1(InverseLog(pred_scaled, last_row_scaled))

\* inverse_transform_prediction: 0.0 when the inverse scaling raises
InverseTransformPrediction(pred_scaled, last_row_scaled, inv_ok) ==
    IF ~inv_ok THEN 0
    ELSE Max0(Expm1(InverseLog(pred_scaled, last_row_scaled)))

\* round(x, 3) of a value in 1/10000
Round3(x) == ((x + 5) \div 10) * 10

\* int(intent.get("days", 7)) and int(intent.get("months", 6))
Horizon(intent, mode) ==
    IF mode = "daily"
    THEN (IF intent.days = 0 THEN DEFAULT_DAYS ELSE intent.days)
    ELSE (IF intent.months = 0 THEN DEFAULT_MONTHS ELSE intent.months)

\* the scaled prediction of step k when a failed call leaves no number
PredScaledUndefined(k, X_input, ext) ==
    IF k \in ext.fails THEN NaN ELSE Predict(ext.pid, X_input)

\* the scaled prediction of step k: 0.0 when model.predict raises
PredScaled(k, X_input, ext) ==
    IF k \in ext.fails THEN 0 ELSE Predict(ext.pid, X_input)

\* the synthesized row had the lags been read one row too far back, as
\* iloc[-(lag + 1)] of the window
SynthRowLagsOneBack(last, target, rolling_window, new_log) ==
    LET n == Len(target)
        lag1 == target[n - 1]
        lag3 == IF n >= 4 THEN target[n - 3] ELSE lag1
        lag7 == IF n >= 8 THEN target[n - 7] ELSE lag1
    IN [c \in Range(WindowCols) |->
          CASE c = "log_PRECTOTCORR_lag1" -> lag1
            [] c = "log_PRECTOTCORR_lag3" -> lag3
            [] c = "log_PRECTOTCORR_lag7" -> lag7
            [] c = "rain_rolling_mean" -> Mean(rolling_window)
            [] c = "rain_rolling_std" -> Std(rolling_window, 0)
            [] c = LOG_TARGET -> new_log
            [] OTHER -> last[c]]

\* the synthesized row when no column of final_features is found in the
\* window: the covariates are set to 0.0 instead of copied
SynthRowZeroCovariates(last, target, rolling_window, new_log) ==
    LET n == Len(target)
        lag1 == target[n]
        lag3 == IF n >= 3 THEN target[n - 2] ELSE lag1
        lag7 == IF n >= 7 THEN target[n - 6] ELSE lag1
    IN [c \in Range(WindowCols) |->
          CASE c = "log_PRECTOTCORR_lag1" -> lag1
            [] c = "log_PRECTOTCORR_lag3" -> lag3
            [] c = "log_PRECTOTCORR_lag7" -> lag7
            [] c = "rain_rolling_mean" -> Mean(rolling_window)
            [] c = "rain_rolling_std" -> Std(rolling_window, 0)
            [] c = LOG_TARGET -> new_log
            [] OTHER -> 0]

\* the row synthesized after a step that forecast rainfall_mm: target is the
\* log target column of the window, rolling_window its tail with the new value
SynthRow(last, target, rolling_window, new_log) ==
    LET n == Len(target)
        lag1 == target[n]
        lag3 == IF n >= 3 THEN target[n - 2] ELSE lag1
        lag7 == IF n >= 7 THEN target[n - 6] ELSE lag1
    IN [c \in Range(WindowCols) |->
          CASE c = "log_PRECTOTCORR_lag1" -> lag1
            [] c = "log_PRECTOTCORR_lag3" -> lag3
            [] c = "log_PRECTOTCORR_lag7" -> lag7
            [] c = "rain_rolling_mean" -> Mean(rolling_window)
            [] c = "rain_rolling_std" -> Std(rolling_window, 0)
            [] c = LOG_TARGET -> new_log
            [] OTHER -> last[c]]

NewRow(window_local, mode, rainfall_mm) ==
    Let(LAMBDA target :
          Let(LAMBDA rolling_window :
                SynthRow(window_local[Len(window_local)], target, rolling_window,
                         Log1p(rainfall_mm)),
              TailN(target, LoopTail(mode)) \o <<Log1p(rainfall_mm)>>),
        [i \in 1..Len(window_local) |-> window_local[i][LOG_TARGET]])

\* dict key order: assigning to a key the dict holds keeps its place, a new
\* key goes last
KeyAdded(keys, key) == IF key \in Range(keys) THEN keys ELSE Append(keys, key)

\* the keys of new_row had the loop named the target "log_PRECTOTCOR" when
\* it stored the step's log value
NewRowColumnsMisnamed(final_features) ==
    KeyAdded(KeyAdded(KeyAdded(KeyAdded(KeyAdded(KeyAdded(final_features,
        "log_PRECTOTCORR_lag1"), "log_PRECTOTCORR_lag3"), "log_PRECTOTCORR_lag7"),
        "rain_rolling_mean"), "rain_rolling_std"), "log_PRECTOTCOR")

\* the keys of new_row, in the order the loop body assigns them: every
\* column of final_features, the lags, the rolling features, the target
NewRowColumns(final_features) ==
    KeyAdded(KeyAdded(KeyAdded(KeyAdded(KeyAdded(KeyAdded(final_features,
        "log_PRECTOTCORR_lag1"), "log_PRECTOTCORR_lag3"), "log_PRECTOTCORR_lag7"),
        "rain_rolling_mean"), "rain_rolling_std"), LOG_TARGET)

\* the columns of pd.concat([window_local, pd.DataFrame([new_row])]): those
\* of the window in their order, then those only the row has
ConcatColumns(window_cols, row_cols) ==
    window_cols \o SelectSeq(row_cols, LAMBDA c : c \notin Range(window_cols))

\* pd.concat([window_local, row]) when no row is dropped
AppendRowKeepAll(window_local, row, mode) == Append(window_local, row)

\* pd.concat([window_local, row]).tail(N)
AppendRow(window_local, row, mode) ==
    TailN(Append(window_local, row), WindowSize(mode))

\* The loop's variables before the first step
LoopStart(state) ==
    [k |-> 1,
     window_local |-> state.preprocessed_window,
     X_input |-> state.preprocessed_data,
     last_row_scaled |-> state.scaled[Len(state.scaled)],
     forecasts |-> <<>>,
     preds |-> <<>>]

\* the loop's variables after a step that predicted pred_scaled, forecast
\* rainfall_mm and left the window window_next, whose last row scales to
\* rescaled
LoopAdvance(ls, ext, pred_scaled, rainfall_mm, window_next, rescaled) ==
    [k |-> ls.k + 1,
     window_local |-> window_next,
     X_input |-> IF ext.rescale_ok THEN <<rescaled>> ELSE ls.X_input,
     last_row_scaled |-> IF ext.rescale_ok THEN rescaled ELSE ls.last_row_scaled,
     forecasts |-> Append(ls.forecasts,
                          [step |-> ls.k,
                           predicted_rainfall_mm |-> Round3(rainfall_mm)]),
     preds |-> Append(ls.preds, pred_scaled)]

\* One pass of the body of "for day in range(1, days + 1)"
\* ext: pid, fails (the steps at which model.predict raises), inv_ok,
\*      rescale_ok (scaler.transform(window_local) returns)
LoopStep(ls, mode, ext) ==
    Let(LAMBDA pred_scaled :
      Let(LAMBDA rainfall_mm :
        Let(LAMBDA window_next :
          Let(LAMBDA rescaled :
                LoopAdvance(ls, ext, pred_scaled, rainfall_mm, window_next, rescaled),
              ScalerTransformRow(window_next[Len(window_next)])),
          AppendRow(ls.window_local,
                    NewRow(ls.window_local, mode, rainfall_mm), mode)),
        InverseTransformPrediction(pred_scaled, ls.last_row_scaled, ext.inv_ok)),
      PredScaled(ls.k, ls.X_input, ext))

RECURSIVE RunLoop(_, _, _, _)
RunLoop(ls, mode, horizon, ext) ==
    Let(LAMBDA l : IF l.k > horizon THEN l
                   ELSE RunLoop(LoopStep(l, mode, ext), mode, horizon, ext),
        ls)

\* the state the agent returns once its loop has ended
LoopReturn(state, mode, ls) ==
    IF mode = "daily" THEN [state EXCEPT !.forecasts = ls.forecasts]
    ELSE [state EXCEPT !.monthly_forecasts = ls.forecasts]

\* What the artifacts do in one call: the predictor pid, the steps at which
\* model.predict raises, whether scaler.inverse_transform and
\* scaler.transform return; and whether load_model and joblib.load return
LoopExt == [pid : Predictors, fails : SUBSET (1..MaxHorizon),
               inv_ok : BOOLEAN, rescale_ok : BOOLEAN]
LoadExt == [model_load_ok : BOOLEAN, scaler_load_ok : BOOLEAN]

\* a call in which the artifacts are never used
NoExt == [pid |-> 1, fails |-> {}, inv_ok |-> TRUE, rescale_ok |-> TRUE]

\* what model_prediction_agent checks and loads before its loop
LoopReached(state, cfg, load) ==
    /\ ModeOf(state.intent) \in {"daily", "monthly"}
    /\ state.preprocessed_window # <<>>
    /\ state.preprocessed_data # <<>>
    /\ state.final_features # <<>>
    /\ state.scaled # <<>>
    /\ cfg.model_paths /\ load.model_load_ok
    /\ load.scaler_load_ok

\* cfg.model_paths: the config dict carries the artifact paths at its top
\* level (_get_config_value finds them); load.model_load_ok and
\* load.scaler_load_ok: load_model and joblib.load return
ModelPredictionAgent(state, cfg, load, ext) ==
    LET mode == ModeOf(state.intent)
    IN IF mode \notin {"daily", "monthly"}
       THEN [state EXCEPT !.error = "Invalid intent mode"]
       ELSE IF \/ state.preprocessed_window = <<>>
               \/ state.preprocessed_data = <<>>
               \/ state.final_features = <<>>
               \/ state.scaled = <<>>
       THEN [state EXCEPT !.error = "Missing required preprocessed data in state"]
       ELSE IF ~(cfg.model_paths /\ load.model_load_ok)
       THEN [state EXCEPT !.error = "Failed to load model"]
       ELSE IF ~load.scaler_load_ok
       THEN [state EXCEPT !.error = "Failed to load scaler"]
       ELSE LoopReturn(state, mode,
                       RunLoop(LoopStart(state), mode,
                               Horizon(state.intent, mode), ext))

\* ------------------------------------------------------------------------
\* The persistence store (table UserQuery) and the user's messages
\* ------------------------------------------------------------------------
MaxQueries == 2
QueryIds == 1..MaxQueries
Users == {1}

\* the messages a user sends
Queries == {"", " ", "hello", "rain in the next 3 days",
            "Rainfall for the coming 2 Months", "daily rain this month"}

\* str.strip()
Strip(q) == IF q = " " THEN "" ELSE q

\* "month" in q, without lowering q first
ContainsMonthExactCase(q) == q \in {"daily rain this month"}

\* "month" in q.lower() and "daily" in q.lower()
ContainsMonth(q) == q \in {"Rainfall for the coming 2 Months", "daily rain this month"}
ContainsDaily(q) == q \in {"daily rain this month"}

\* created_at: the reading of the clock (datetime.utcnow()) the row was
\* built with, on an axis where the rows stored before the requests that
\* are followed read 0 and the request of the run reads Now. The readings
\* of two requests under way together may fall in either order whatever
\* the order of their ids; rows of equal reading come back from ORDER BY
\* in the order the database gives them, which is taken as their order
\* here, so the readings of the stored rows differ.
Now == MaxQueries
ClockReadings == 1..(2 * MaxQueries - 1)

NoRow == [exists |-> FALSE, user_id |-> 0, query_text |-> "",
          response_text |-> "", response |-> "", writes |-> 0,
          created_at |-> 0]

\* db.query(UserQuery).filter(id == query_id, user_id == user_id).first():
\* the id of the row, 0 when there is none
FindQuery(db, query_id, user_id) ==
    IF query_id \in QueryIds /\ db[query_id].exists /\ db[query_id].user_id = user_id
    THEN query_id ELSE 0

\* db.query(UserQuery).filter(user_id == user_id)
\*   .order_by(UserQuery.created_at.desc()).first(): the id of the user's
\* row of the latest created_at, 0 when the user has none
LatestQuery(db, user_id) ==
    LET mine == {q \in QueryIds : db[q].exists /\ db[q].user_id = user_id}
    IN IF mine = {} THEN 0
       ELSE CHOOSE q \in mine :
              \A r \in mine : db[r].created_at <= db[q].created_at

\* row.response_text = text; row.response_time = now; db.commit()
WriteResponse(db, query_id, text) ==
    [db EXCEPT ![query_id].response_text = text,
               ![query_id].writes = @ + 1]

\* ------------------------------------------------------------------------
\* The agents of the interactive workflow
\* ------------------------------------------------------------------------
\* Every agent below yields [raised, state, db]: raised is "" when the agent
\* returns, else the detail of the HTTPException it raises.
Returned(state, db) == [raised |-> "", state |-> state, db |-> db]
Raised(detail, state, db) == [raised |-> detail, state |-> state, db |-> db]

\* The config a caller hands to the agents:
\*   configurable_db  config["configurable"]["db"] is a session
\*   user_id          config["configurable"]["user_id"], 0 when missing
\*   top_db           config["db"] is a session
\*   top_user_id      config["user_id"], 0 when missing
\*   model_paths      the artifact paths are keys of config itself

\* userquery_fetcher_agent when it takes the user's latest query whatever
\* the session_id of the state
UserqueryFetcherLatest(state, cfg, db) ==
    LET query == LatestQuery(db, cfg.user_id)
    IN IF ~cfg.configurable_db THEN Raised("Database session missing.", state, db)
       ELSE IF cfg.user_id = 0 THEN Raised("User ID missing.", state, db)
       ELSE IF cfg.user_id \notin Users THEN Raised("User not found.", state, db)
       ELSE IF query = 0 THEN Raised("No user query found.", state, db)
       ELSE Returned([state EXCEPT !.session_id = query,
                                   !.user_id = db[query].user_id,
                                   !.user_query = Strip(db[query].query_text)],
                     db)

\* userquery_fetcher_agent
UserqueryFetcherAgent(state, cfg, db) ==
    LET byId == IF state.session_id # 0
                THEN FindQuery(db, state.session_id, cfg.user_id) ELSE 0
        query == IF byId # 0 THEN byId ELSE LatestQuery(db, cfg.user_id)
    IN IF ~cfg.configurable_db THEN Raised("Database session missing.", state, db)
       ELSE IF cfg.user_id = 0 THEN Raised("User ID missing.", state, db)
       ELSE IF cfg.user_id \notin Users THEN Raised("User not found.", state, db)
       ELSE IF query = 0 THEN Raised("No user query found.", state, db)
       ELSE Returned([state EXCEPT !.session_id = query,
                                   !.user_id = db[query].user_id,
                                   !.user_query = Strip(db[query].query_text)],
                     db)

\* What the OpenAI call gives back:
\*   kind "failed"  the call raises
\*   kind "text"    a reply that json.loads rejects
\*   kind "json"    a JSON object with mode ("absent": no such key, "null":
\*                  null), days, months (0: null) and confidence (hundredths)
LLMAnswers ==
    {[kind |-> "failed", mode |-> "absent", days |-> 0, months |-> 0, confidence |-> 0],
     [kind |-> "text", mode |-> "absent", days |-> 0, months |-> 0, confidence |-> 0]}
    \cup [kind : {"json"},
          mode : {"absent", "null", "daily", "Daily", "monthly", "unrelated"},
          days : {0, 3}, months : {0, 2}, confidence : {90}]

\* intent_detection_agent without its sanity check on the parsed mode
IntentDetectionUnchecked(state, client, answer, db) ==
    LET user_query == state.user_query
        parsed_ok == answer.kind = "json" /\ answer.mode # "null"
        parsed_mode == IF answer.mode = "absent" THEN "daily" ELSE Lower(answer.mode)
        first == IF parsed_ok
                 THEN [mode |-> parsed_mode, confidence |-> answer.confidence]
                 ELSE IF ContainsMonth(user_query)
                      THEN [mode |-> "monthly", confidence |-> 70]
                      ELSE [mode |-> "daily", confidence |-> 60]
    IN IF user_query = "" THEN Raised("user_query missing in state", state, db)
       ELSE IF ~client THEN Raised("OpenAI client not initialized", state, db)
       ELSE IF answer.kind = "failed" THEN Raised("OpenAI call failed", state, db)
       ELSE Returned([state EXCEPT !.intent = [mode |-> first.mode,
                                               days |-> 0, months |-> 0,
                                               confidence |-> first.confidence]],
                     db)

\* intent_detection_agent
IntentDetectionAgent(state, client, answer, db) ==
    LET user_query == state.user_query
        parsed_ok == answer.kind = "json" /\ answer.mode # "null"
        parsed_mode == IF answer.mode = "absent" THEN "daily" ELSE Lower(answer.mode)
        first == IF parsed_ok
                 THEN [mode |-> parsed_mode, confidence |-> answer.confidence]
                 ELSE IF ContainsMonth(user_query)
                      THEN [mode |-> "monthly", confidence |-> 70]
                      ELSE [mode |-> "daily", confidence |-> 60]
        checked == IF first.mode \notin {"daily", "monthly"}
                   THEN [mode |-> "daily", confidence |-> 50]
                   ELSE first
    IN IF user_query = "" THEN Raised("user_query missing in state", state, db)
       ELSE IF ~client THEN Raised("OpenAI client not initialized", state, db)
       ELSE IF answer.kind = "failed" THEN Raised("OpenAI call failed", state, db)
       ELSE Returned([state EXCEPT !.intent = [mode |-> checked.mode,
                                               days |-> 0, months |-> 0,
                                               confidence |-> checked.confidence]],
                     db)

\* route_intent when it does not look at state["error"]
route_intent_ignoring_error(state) ==
    LET mode == state.intent.mode
    IN IF mode \in {"absent", ""} THEN "fallback"
       ELSE IF Lower(mode) = "daily" THEN "daily_path"
       ELSE IF Lower(mode) = "monthly" THEN "monthly_path"
       ELSE "fallback"

\* route_intent
route_intent(state) ==
    LET mode == state.intent.mode
    IN IF state.error # NoError \/ mode \in {"absent", ""} THEN "fallback"
       ELSE IF Lower(mode) = "daily" THEN "daily_path"
       ELSE IF Lower(mode) = "monthly" THEN "monthly_path"
       ELSE "fallback"

\* the conditional edges of detect_intent had "fallback" been mapped to a
\* name that is no node of the graph
RouteTargetDeadEnd(choice) ==
    CASE choice = "daily_path" -> "fetch_parameters"
      [] choice = "monthly_path" -> "fetch_parameters"
      [] choice = "fallback" -> "final_error_handler"

\* the conditional edges of detect_intent
RouteTarget(choice) ==
    CASE choice = "daily_path" -> "fetch_parameters"
      [] choice = "monthly_path" -> "fetch_parameters"
      [] choice = "fallback" -> "fallback"

\* What the data provider does: kind "raise" (the request fails) or kind
\* "table" (the raw series of pattern pat with n rows; n = 0: nothing)
FlowLens == {0, MONTHLY_WINDOW + 6, MaxRawLen}
FetchOutcomes ==
    {[kind |-> "raise", pat |-> 1, n |-> 0]}
    \cup [kind : {"table"}, pat : RawPatterns, n : FlowLens]

\* nasa_daily: its first statements use timedelta, a name the module never
\* imports, so every call raises NameError
NasaDaily(outcome) == [raised |-> TRUE, df |-> NoDF]

\* nasa_monthly
NasaMonthly(outcome) ==
    IF outcome.kind = "raise" THEN [raised |-> TRUE, df |-> NoDF]
    ELSE [raised |-> FALSE,
          df |-> RepairMissing(CompleteColumns(RawSeries(outcome.pat, outcome.n)))]

\* parameter_fetcher_agent
ParameterFetcherAgent(state, outcome) ==
    LET mode == ModeOf(state.intent)
        got == IF mode = "monthly" THEN NasaMonthly(outcome) ELSE NasaDaily(outcome)
    IN IF mode \notin {"daily", "monthly"}
       THEN [state EXCEPT !.error = "Invalid mode"]
       ELSE IF got.raised
       THEN [state EXCEPT !.error = "NASA API fetch failed"]
       ELSE IF got.df.rows = <<>>
       THEN [state EXCEPT !.error = "No NASA data retrieved"]
       ELSE [state EXCEPT !.nasa_parameters = got.df]

\* What the summarizer and the store do in one call of interpretation_agent:
\*   gpt        "text" (a summary), "failed" (the call raises)
\*   commit_ok  db.commit() returns
InterpretExt == [gpt : {"text", "failed"}, commit_ok : BOOLEAN]

\* _gpt_interpret
GptInterpret(client, gpt) ==
    IF ~client THEN "OpenAI client not configured. Interpretation unavailable."
    ELSE IF gpt = "failed" THEN "Error generating interpretation"
    ELSE "interpretation of the forecast"

\* interpretation_agent
InterpretationAgent(state, cfg, client, ext, db) ==
    LET query_id == state.session_id
        has_forecast == state.forecasts # <<>> \/ state.monthly_forecasts # <<>>
        interpretation_text ==
            IF ~has_forecast THEN "No forecast data available to interpret."
            ELSE GptInterpret(client, ext.gpt)
        saved == IF query_id \in QueryIds /\ db[query_id].exists /\ ext.commit_ok
                 THEN WriteResponse(db, query_id, interpretation_text)
                 ELSE db
    IN IF ~cfg.configurable_db
       THEN Returned([state EXCEPT !.prediction_interpretation = "DB session missing."], db)
       ELSE IF query_id = 0
       THEN Returned([state EXCEPT !.prediction_interpretation = "Missing session_id."], db)
       ELSE Returned([state EXCEPT !.prediction_interpretation = interpretation_text],
                     saved)

\* fallback_agent
FallbackAgent(state) ==
    LET response_text ==
          IF state.error # NoError THEN "An internal error occurred. Please try again later."
          ELSE IF state.intent.mode = "unrelated"
          THEN "The query you submitted appears unrelated to rainfall prediction."
          ELSE "I could not process your request due to an uncertain intent or missing parameters."
    IN [state EXCEPT !.prediction_interpretation = response_text,
                     !.error = response_text,
                     !.status = "failed_or_unrelated"]

\* What the environment does in one call of supervisory_agent
SuperviseExt == [interp : InterpretExt, commit_ok : BOOLEAN]

\* supervisory_agent, from the interpretation on: the state reached the
\* interpretation without an error. What is returned is a dict of its own
\* with seven keys and no other key of the state; latitude and longitude
\* are the defaults 6.585 and 3.983 (in 1/10000), the config naming none;
\* raw_prediction is the first of forecasts and monthly_forecasts that is
\* not empty.
SuperviseSave(state, cfg, client, ext, db) ==
    LET done == InterpretationAgent(state, cfg, client, ext.interp, db)
        query_id == done.state.session_id
        found == query_id \in QueryIds /\ done.db[query_id].exists
        result == [status |-> "success",
                   user_id |-> cfg.top_user_id,
                   latitude |-> 65850,
                   longitude |-> 39830,
                   mode |-> done.state.intent.mode,
                   prediction_interpretation |-> done.state.prediction_interpretation,
                   raw_prediction |-> IF done.state.forecasts # <<>>
                                      THEN done.state.forecasts
                                      ELSE done.state.monthly_forecasts]
    IN IF query_id = 0 THEN Returned(result, done.db)
       ELSE IF ~cfg.top_db \/ (found /\ ~ext.commit_ok)
       THEN Raised("Failed to update DB", state, done.db)
       ELSE IF found
       THEN Returned(result,
                     [done.db EXCEPT
                        ![query_id].response = done.state.prediction_interpretation,
                        ![query_id].writes = @ + 1])
       ELSE Returned(result, done.db)

\* supervisory_agent when it goes on to the interpretation without looking
\* for "error" in the state
SupervisoryUnchecked(state, cfg, client, db) ==
    LET fetched == UserqueryFetcherAgent(state, cfg, db)
    IN IF fetched.raised # ""
       THEN {Raised(fetched.raised, state, db)
               @@ [calls |-> <<"fetch_query">>, intent |-> state.intent]}
       ELSE {SuperviseSave(fetched.state, cfg, client, ext, db)
               @@ [calls |-> <<"fetch_query", "interpret_result">>,
                   intent |-> state.intent] :
               ext \in SuperviseExt}

\* supervisory_agent: it runs the whole pipeline again on the state it is
\* given, and answers with a dict of its own (see SuperviseSave). Each outcome also tells
\* the agents the call ran, by the name of their node (calls), and the
\* intent those agents were given (intent).
SupervisoryOutcomes(state, cfg, client, db) ==
    LET fetched == UserqueryFetcherAgent(state, cfg, db)
        withIntent ==
            [fetched.state EXCEPT
               !.intent = [mode |-> IF ContainsDaily(fetched.state.user_query)
                                    THEN "daily" ELSE "monthly",
                           days |-> 0, months |-> 0, confidence |-> 0]]
    IN IF fetched.raised # ""
       THEN {Raised(fetched.raised, state, db)
               @@ [calls |-> <<"fetch_query">>, intent |-> state.intent]}
       ELSE UNION {
              IF prepared.error # NoError
              THEN {Raised(prepared.error, state, db)
                      @@ [calls |-> <<"fetch_query", "fetch_parameters",
                                      "preprocess_data">>,
                          intent |-> withIntent.intent]}
              ELSE UNION {
                     IF predicted.error # NoError
                     THEN {Raised(predicted.error, state, db)
                             @@ [calls |-> <<"fetch_query", "fetch_parameters",
                                             "preprocess_data", "predict_model">>,
                                 intent |-> withIntent.intent]}
                     ELSE {SuperviseSave(predicted, cfg, client, ext, db)
                             @@ [calls |-> <<"fetch_query", "fetch_parameters",
                                             "preprocess_data", "predict_model",
                                             "interpret_result">>,
                                 intent |-> withIntent.intent] :
                             ext \in SuperviseExt}
                     : predicted \in
                         UNION {{ModelPredictionAgent(prepared, cfg, load, loop) :
                                   loop \in IF LoopReached(prepared, cfg, load)
                                            THEN LoopExt ELSE {NoExt}} :
                                load \in LoadExt}}
              : prepared \in
                  UNION {{PreprocessingAgent(got, pre) : pre \in PreprocessExt} :
                         got \in {ParameterFetcherAgent(s, fetch) :
                                    s \in {withIntent}, fetch \in FetchOutcomes}}}

\* ------------------------------------------------------------------------
\* The graph of rainfall_graph.py
\* ------------------------------------------------------------------------
\* the keys class AgentState declares: the graph keeps a channel for each of
\* them and drops every other key of a node's result
AgentStateKeys ==
    {"session_id", "user_id", "user_query", "intent", "nasa_parameters",
     "preprocessed_data", "error", "forecasts", "monthly_forecasts",
     "prediction_interpretation"}

\* the state after a node returned result: a declared key the result
\* carries takes the result's value, every other key keeps its own
GraphUpdate(old, result) ==
    [k \in DOMAIN EmptyState |->
       IF k \in AgentStateKeys /\ k \in DOMAIN result THEN result[k] ELSE old[k]]

\* graph_config of post_user_input
GraphConfig(user_id) ==
    [configurable_db |-> TRUE, user_id |-> user_id, top_db |-> FALSE,
     top_user_id |-> 0, model_paths |-> FALSE]

\* ------------------------------------------------------------------------
\* Variables
\* ------------------------------------------------------------------------
VARIABLES
    pc,      \* where the run is: the next node or step
    st,      \* the workflow state
    lp,      \* the variables of the forecast loop while it runs
    env,     \* the predictor and scaler behaviour fixed for one forecast call
    db,      \* the rows of table UserQuery
    run,     \* the request being served: its row, its config, the client
    trace,   \* the nodes executed so far, each with the error it found set
    resp     \* what the request handler returned

vars == <<pc, st, lp, env, db, run, trace, resp>>

\* calls, seen_intent: the agents supervisory_agent called and the intent
\* it gave them; others: the steps of other requests taken so far
NoRun == [sid |-> 0, cfg |-> GraphConfig(0), client |-> TRUE,
          llm |-> [kind |-> "none", mode |-> "absent", days |-> 0, months |-> 0,
                   confidence |-> 0],
          calls |-> <<>>, seen_intent |-> NoIntent, others |-> 0]
\* detail: the text of the exception post_user_input puts behind
\* "Agent workflow failed: "
NoResp == [status |-> "", agent_status |-> "", agent_response |-> "", detail |-> ""]

NoLoop == [k |-> 0, window_local |-> <<>>, X_input |-> <<>>,
           last_row_scaled |-> <<>>, forecasts |-> <<>>, preds |-> <<>>]

\* ------------------------------------------------------------------------
\* Feature engineering and forecast, called on their own
\* ------------------------------------------------------------------------

\* a caller's state: an intent and a raw series
InitLoop ==
    /\ pc = "preprocess"
    /\ \E mode \in {"daily", "monthly"}, h \in 0..MaxHorizon,
          pat \in RawPatterns, n \in RawLens :
         st = [EmptyState EXCEPT
                 !.intent = [mode |-> mode,
                             days |-> IF mode = "daily" THEN h ELSE 0,
                             months |-> IF mode = "monthly" THEN h ELSE 0,
                             confidence |-> 0],
                 !.nasa_parameters = RawSeries(pat, n)]
    /\ lp = NoLoop
    /\ env = NoExt
    /\ db = [q \in QueryIds |-> NoRow]
    /\ run = NoRun
    /\ trace = <<>>
    /\ resp = NoResp

\* preprocessing_agent(state)
CallPreprocess ==
    /\ pc = "preprocess"
    /\ \E ext \in PreprocessExt : st' = PreprocessingAgent(st, ext)
    /\ pc' = "predict"
    /\ UNCHANGED <<lp, env, db, run, trace, resp>>

\* model_prediction_agent(state, config) up to its loop; the predictor and
\* the scaler loaded are the ones of this call
CallPredict ==
    /\ pc = "predict"
    /\ \E cfg \in [model_paths : BOOLEAN], load \in LoadExt :
         IF LoopReached(st, cfg, load)
         THEN /\ lp' = LoopStart(st)
              /\ env' \in LoopExt
              /\ pc' = "loop"
              /\ st' = st
         ELSE /\ st' = ModelPredictionAgent(st, cfg, load, NoExt)
              /\ pc' = "returned"
              /\ UNCHANGED <<lp, env>>
    /\ UNCHANGED <<db, run, trace, resp>>

\* one iteration of the loop
Step ==
    /\ pc = "loop"
    /\ lp.k <= Horizon(st.intent, ModeOf(st.intent))
    /\ lp' = LoopStep(lp, ModeOf(st.intent), env)
    /\ UNCHANGED <<pc, st, env, db, run, trace, resp>>

\* the loop has ended: the agent returns the forecasts
Return ==
    /\ pc = "loop"
    /\ lp.k > Horizon(st.intent, ModeOf(st.intent))
    /\ st' = LoopReturn(st, ModeOf(st.intent), lp)
    /\ pc' = "returned"
    /\ UNCHANGED <<lp, env, db, run, trace, resp>>

NextLoop == CallPreprocess \/ CallPredict \/ Step \/ Return

SpecLoop == InitLoop /\ [][NextLoop]_vars

\* ------------------------------------------------------------------------
\* The interactive workflow: post_user_input runs the graph
\* ------------------------------------------------------------------------
\* Before the request: the store is empty or holds an earlier, answered
\* query of the user; the OpenAI client exists or not (OPENAI_API_KEY).
Init ==
    /\ pc = "start"
    /\ st = EmptyState
    /\ lp = NoLoop
    /\ env = NoExt
    /\ \E earlier \in BOOLEAN :
         db = [q \in QueryIds |->
                 IF earlier /\ q = 1
                 THEN [exists |-> TRUE, user_id |-> 1, query_text |-> "hello",
                       response_text |-> "an earlier answer", response |-> "",
                       writes |-> 1, created_at |-> 0]
                 ELSE NoRow]
    /\ \E client \in BOOLEAN : run = [NoRun EXCEPT !.client = client]
    /\ trace = <<>>
    /\ resp = NoResp

\* post_user_input up to RAIN_GRAPH.invoke: the user is looked up, the query
\* is stored in a new row, the initial state and the config are built;
\* messages are the texts the request may carry
PostUserInputFrom(messages) ==
    /\ pc = "start"
    /\ \E user \in Users \cup {2}, message \in messages :
         IF user \notin Users
         THEN /\ resp' = [NoResp EXCEPT !.status = "404 User not found"]
              /\ pc' = "done"
              /\ UNCHANGED <<st, db, run>>
         ELSE LET row == CHOOSE q \in QueryIds :
                           /\ ~db[q].exists
                           /\ \A r \in QueryIds : ~db[r].exists => q <= r
              IN /\ \E q \in QueryIds : ~db[q].exists
                 /\ db' = [db EXCEPT ![row] = [NoRow EXCEPT !.exists = TRUE,
                                                          !.user_id = user,
                                                          !.query_text = message,
                                                          !.created_at = Now]]
                 /\ st' = [EmptyState EXCEPT !.session_id = row,
                                             !.user_id = user,
                                             !.user_query = message]
                 /\ run' = [run EXCEPT !.sid = row, !.cfg = GraphConfig(user)]
                 /\ pc' = "fetch_query"
                 /\ resp' = resp
    /\ UNCHANGED <<lp, env, trace>>

PostUserInput == PostUserInputFrom(Queries)

\* post_user_input after an exception left RAIN_GRAPH.invoke
Crash == [status |-> "triggered_and_completed", agent_status |-> "crash",
          agent_response |-> "Agent workflow failed", detail |-> ""]

\* A node of the graph ran with outcome out: when it returned, the graph
\* takes its result and goes to next; when it raised, the exception leaves
\* the graph and post_user_input answers with the crash response
NodeRan(name, out, next) ==
    /\ trace' = Append(trace, [node |-> name, err |-> st.error])
    /\ db' = out.db
    /\ IF out.raised # ""
       THEN /\ pc' = "done"
            /\ resp' = [Crash EXCEPT !.detail = out.raised]
            /\ st' = st
       ELSE /\ pc' = next
            /\ resp' = resp
            /\ st' = GraphUpdate(st, out.state)
    /\ UNCHANGED <<lp, env>>

\* node fetch_query
FetchQuery ==
    /\ pc = "fetch_query"
    /\ NodeRan("fetch_query", UserqueryFetcherAgent(st, run.cfg, db), "detect_intent")
    /\ run' = run

\* node detect_intent; run.llm keeps what the classifier answered; answers
\* are the replies the OpenAI call may give
DetectIntentFrom(answers) ==
    /\ pc = "detect_intent"
    /\ \E answer \in answers :
         /\ NodeRan("detect_intent",
                    IntentDetectionAgent(st, run.client, answer, db), "route_intent")
         /\ run' = [run EXCEPT !.llm = answer]

DetectIntent == DetectIntentFrom(LLMAnswers)

\* the conditional edge after detect_intent
RouteIntent ==
    /\ pc = "route_intent"
    /\ pc' = RouteTarget(route_intent(st))
    /\ UNCHANGED <<st, lp, env, db, run, trace, resp>>

\* node fetch_parameters; outcomes are the answers the NASA service may
\* give
FetchParametersFrom(outcomes) ==
    /\ pc = "fetch_parameters"
    /\ \E outcome \in outcomes :
         NodeRan("fetch_parameters",
                 Returned(ParameterFetcherAgent(st, outcome), db), "preprocess_data")
    /\ run' = run

FetchParameters == FetchParametersFrom(FetchOutcomes)

\* node preprocess_data
PreprocessData ==
    /\ pc = "preprocess_data"
    /\ \E ext \in PreprocessExt :
         NodeRan("preprocess_data",
                 Returned(PreprocessingAgent(st, ext), db), "predict_model")
    /\ run' = run

\* node predict_model
PredictModel ==
    /\ pc = "predict_model"
    /\ \E load \in LoadExt :
       \E ext \in (IF LoopReached(st, run.cfg, load) THEN LoopExt ELSE {NoExt}) :
         NodeRan("predict_model",
                 Returned(ModelPredictionAgent(st, run.cfg, load, ext), db),
                 "interpret_result")
    /\ run' = run

\* node interpret_result
InterpretResult ==
    /\ pc = "interpret_result"
    /\ \E ext \in InterpretExt :
         NodeRan("interpret_result",
                 InterpretationAgent(st, run.cfg, run.client, ext, db),
                 "supervise_and_save")
    /\ run' = run

\* node supervise_and_save
SuperviseAndSave ==
    /\ pc = "supervise_and_save"
    /\ \E out \in SupervisoryOutcomes(st, run.cfg, run.client, db) :
         /\ NodeRan("supervise_and_save", out, "END")
         /\ run' = [run EXCEPT !.calls = out.calls, !.seen_intent = out.intent]

\* node fallback
Fallback ==
    /\ pc = "fallback"
    /\ NodeRan("fallback", Returned(FallbackAgent(st), db), "END")
    /\ run' = run

\* the graph reached END: post_user_input answers from the final state
End ==
    /\ pc = "END"
    /\ resp' = [status |-> "triggered_and_completed",
                agent_status |-> IF st.status = "" THEN "error" ELSE st.status,
                agent_response |->
                    IF st.prediction_interpretation = ""
                    THEN "Processing complete, check response in database."
                    ELSE st.prediction_interpretation,
                detail |-> ""]
    /\ pc' = "done"
    /\ UNCHANGED <<st, lp, env, db, run, trace>>

\* the steps a request of post_user_input takes
Next ==
    \/ PostUserInput
    \/ FetchQuery
    \/ DetectIntent
    \/ RouteIntent
    \/ FetchParameters
    \/ PreprocessData
    \/ PredictModel
    \/ InterpretResult
    \/ SuperviseAndSave

Spec == Init /\ [][Next]_vars

\* ------------------------------------------------------------------------
\* The graph from its conditional edge on, for every state route_intent can
\* be given
\* ------------------------------------------------------------------------
RouteModes == {"absent", "", "daily", "Daily", "monthly", "MONTHLY", "unrelated"}
RouteErrors == {NoError, "OpenAI call failed"}

\* detect_intent has returned some state for the stored query of row 1
InitRoute ==
    /\ pc = "route_intent"
    /\ \E mode \in RouteModes, error \in RouteErrors :
         st = [EmptyState EXCEPT !.session_id = 1,
                                 !.user_id = 1,
                                 !.user_query = "hello",
                                 !.intent = [NoIntent EXCEPT !.mode = mode],
                                 !.error = error]
    /\ lp = NoLoop
    /\ env = NoExt
    /\ db = [q \in QueryIds |->
               IF q = 1 THEN [NoRow EXCEPT !.exists = TRUE, !.user_id = 1,
                                           !.query_text = "hello"]
               ELSE NoRow]
    /\ \E client \in BOOLEAN :
         run = [NoRun EXCEPT !.sid = 1, !.cfg = GraphConfig(1), !.client = client]
    /\ trace = <<>>
    /\ resp = NoResp

NextRoute ==
    \/ RouteIntent
    \/ FetchParameters
    \/ PreprocessData
    \/ PredictModel
    \/ InterpretResult
    \/ SuperviseAndSave
    \/ Fallback
    \/ End

SpecRoute == InitRoute /\ [][NextRoute]_vars

\* StateGraph.invoke runs the node a state is at and follows its edge: a run
\* that can take a step takes one. The condition on supervise_and_save is
\* weak fairness with the step's enabling condition written out, its guard:
\* the node has an outcome in every state it is given.
SpecRouteFair ==
    /\ SpecRoute
    /\ WF_vars(RouteIntent \/ FetchParameters \/ PreprocessData \/ PredictModel
                  \/ InterpretResult \/ Fallback \/ End)
    /\ ([]<>(pc # "supervise_and_save") \/ []<><<SuperviseAndSave>>_vars)

\* ------------------------------------------------------------------------
\* The graph of main_graph.py at its conditional edge
\* ------------------------------------------------------------------------
\* intent == text, for the intent of the state: intent_detection_agent
\* stores a dict, and a dict never equals a str
IntentEqualsText(intent, text) == FALSE

\* route_after_intent
route_after_intent(state) ==
    IF state.error # NoError THEN "final_error_handler"
    ELSE IF \/ IntentEqualsText(state.intent, "daily")
            \/ IntentEqualsText(state.intent, "monthly")
    THEN "parameter_fetcher"
    ELSE IF IntentEqualsText(state.intent, "unrelated")
    THEN "final_unrelated_response"
    ELSE "final_error_handler"

\* query_fetcher has returned the stored query of row 1
InitMain ==
    /\ pc = "detect_intent"
    /\ \E message \in {Strip(q) : q \in Queries} :
         /\ st = [EmptyState EXCEPT !.session_id = 1,
                                    !.user_id = 1,
                                    !.user_query = message]
         /\ db = [q \in QueryIds |->
                    IF q = 1 THEN [NoRow EXCEPT !.exists = TRUE, !.user_id = 1,
                                                !.query_text = message]
                    ELSE NoRow]
    /\ lp = NoLoop
    /\ env = NoExt
    /\ \E client \in BOOLEAN :
         run = [NoRun EXCEPT !.sid = 1, !.cfg = GraphConfig(1), !.client = client]
    /\ trace = <<>>
    /\ resp = NoResp

\* the conditional edge after intent_agent: the mapping names each choice
\* as its own target
RouteAfterIntent ==
    /\ pc = "route_intent"
    /\ pc' = route_after_intent(st)
    /\ UNCHANGED <<st, lp, env, db, run, trace, resp>>

\* save_agent_response
SaveAgentResponse(rows, query_id, response_text) ==
    IF query_id \in QueryIds /\ rows[query_id].exists
    THEN WriteResponse(rows, query_id, response_text)
    ELSE rows

\* the text final_error_handler and final_unrelated_response save: the
\* state carries no key error when no agent wrote one
FinalResponseText(node, state) ==
    IF node = "final_unrelated_response"
    THEN "I apologize, but my function is specialized for rainfall prediction. Please ask a query related to predicting rainfall."
    ELSE "ERROR: " \o (IF state.error = NoError
                       THEN "An unknown internal system error occurred."
                       ELSE state.error)

\* nodes final_error_handler and final_unrelated_response: the text is
\* saved to the row of the session through a session of the node's own;
\* an exception of the save (save_ok false) is caught and printed. The
\* key final_response they return is no key of AgentState. Both lead to
\* END.
FinalResponse ==
    /\ pc \in {"final_error_handler", "final_unrelated_response"}
    /\ \E save_ok \in BOOLEAN :
         db' = IF st.session_id # 0 /\ save_ok
               THEN SaveAgentResponse(db, st.session_id, FinalResponseText(pc, st))
               ELSE db
    /\ trace' = Append(trace, [node |-> pc, err |-> st.error])
    /\ pc' = "END"
    /\ UNCHANGED <<st, lp, env, run, resp>>

NextMain == DetectIntent \/ RouteAfterIntent \/ FinalResponse

SpecMain == InitMain /\ [][NextMain]_vars

\* the edges of the graph build_rainfall_graph of main_graph.py builds: the
\* nodes a node can be followed by
MainGraphNext(node) ==
    CASE node = "query_fetcher" -> {"intent_agent"}
      [] node = "intent_agent" -> {"parameter_fetcher", "final_unrelated_response",
                                   "final_error_handler"}
      [] node = "parameter_fetcher" -> {"prediction_agent"}
      [] node = "prediction_agent" -> {"interpretation_agent"}
      [] node = "interpretation_agent" -> {"supervisory_agent"}
      [] node = "supervisory_agent" -> {"END", "final_error_handler"}
      [] node = "final_unrelated_response" -> {"END"}
      [] node = "final_error_handler" -> {"END"}
      [] OTHER -> {}

\* ------------------------------------------------------------------------
\* The interactive workflow beside another session of the same user
\* ------------------------------------------------------------------------
\* the messages of the run that is followed beside the other session: one
\* that supervisory_agent takes for a monthly query and one it takes for a
\* daily query
SharedQueries == {"hello", "daily rain this month"}

\* the steps of the other requests (post_user_input, predict_rainfall,
\* agent_post_response) that are followed
MaxOtherSteps == 2

\* A step of another request of the user, running in its own thread with
\* its own database session before, while or after the run is under way:
\* post_user_input (or predict_rainfall of routers/chatbot.py) stores its
\* query in a new row, with the reading its clock gave, or the response
\* of the row of such a request is written (by interpretation_agent, or
\* by predict_rainfall when its workflow returned), whatever the row
\* holds by then.
OtherSession ==
    /\ run.others < MaxOtherSteps
    /\ \/ \E q \in QueryIds, user \in Users, now \in ClockReadings \ {Now} :
            /\ ~db[q].exists
            /\ \A r \in QueryIds : ~db[r].exists => q <= r
            /\ \A r \in QueryIds : db[r].exists => db[r].created_at # now
            /\ db' = [db EXCEPT ![q] = [NoRow EXCEPT
                                          !.exists = TRUE,
                                          !.user_id = user,
                                          !.query_text = "rain in the next 3 days",
                                          !.created_at = now]]
       \/ \E q \in QueryIds \ {run.sid} :
            /\ db[q].exists
            /\ db' = WriteResponse(db, q, "No forecast data available to interpret.")
    /\ run' = [run EXCEPT !.others = @ + 1]
    /\ UNCHANGED <<pc, st, lp, env, trace, resp>>

\* the classifier's replies to the run that is followed beside the other
\* requests: the call fails, or the reply is no JSON and the keywords of
\* the query decide (daily for "hello", monthly for "daily rain this
\* month")
SharedAnswers == {a \in LLMAnswers : a.kind \in {"failed", "text"}}

\* the answers of the NASA service to the run that is followed beside the
\* other requests: the request fails, or a table of the first pattern
\* comes back, empty, too short for a window or of full length
SharedFetches == {o \in FetchOutcomes : o.pat = 1}

\* agent_post_response (POST /chatbot_response), served at any time, before,
\* during and after the run: the row of the user named by query_id, or
\* with no query_id (0) the user's latest row, takes the response_text of
\* the payload, whatever the row holds; a request that finds no row
\* answers 404 and changes nothing
AgentPostResponse ==
    /\ run.others < MaxOtherSteps
    /\ \E user_id \in Users, query_id \in {0} \cup QueryIds :
         LET found == IF query_id # 0 THEN FindQuery(db, query_id, user_id)
                      ELSE LatestQuery(db, user_id)
         IN \E target \in {found} \ {0} :
              db' = WriteResponse(db, target, "a response posted by an agent")
    /\ run' = [run EXCEPT !.others = @ + 1]
    /\ UNCHANGED <<pc, st, lp, env, trace, resp>>

NextShared ==
    \/ PostUserInputFrom(SharedQueries)
    \/ FetchQuery
    \/ DetectIntentFrom(SharedAnswers)
    \/ RouteIntent
    \/ FetchParametersFrom(SharedFetches)
    \/ PreprocessData
    \/ PredictModel
    \/ InterpretResult
    \/ SuperviseAndSave
    \/ OtherSession
    \/ AgentPostResponse

SpecShared == Init /\ [][NextShared]_vars

\* ------------------------------------------------------------------------
\* forecast_publisher_agent on its own
\* ------------------------------------------------------------------------
\* the length of the longest forecast list published and the number of
\* days "today" ranges over
MaxForecasts == 8
MaxDays == 100

\* the entries of the weekly and of the three-month payload
DAILY_BUCKET == 7
MONTHLY_BUCKET == 3

\* A day is counted from 1970-01-01 (day 0). datetime(y, m, d) as a day:
\* the proleptic Gregorian calendar of the datetime module
DaysFromCivil(y, m, d) ==
    LET yy == IF m <= 2 THEN y - 1 ELSE y
        era == yy \div 400
        yoe == yy - era * 400
        mp == IF m > 2 THEN m - 3 ELSE m + 9
        doy == (153 * mp + 2) \div 5 + d - 1
        doe == yoe * 365 + yoe \div 4 - yoe \div 100 + doy
    IN era * 146097 + doe - 719468

\* strftime("%Y-%m-%d") of a day: its year, month and day of the month
CivilFromDays(z) ==
    LET zz == z + 719468
        era == zz \div 146097
        doe == zz - era * 146097
        yoe == (doe - doe \div 1460 + doe \div 36524 - doe \div 146096) \div 365
        doy == doe - (365 * yoe + yoe \div 4 - yoe \div 100)
        mp == (5 * doy + 2) \div 153
        m == IF mp < 10 THEN mp + 3 ELSE mp - 9
    IN [y |-> yoe + era * 400 + (IF m <= 2 THEN 1 ELSE 0),
        m |-> m,
        d |-> doy - (153 * mp + 2) \div 5 + 1]

\* datetime.strptime(text, "%Y-%m-%d") as a day
Strptime(date) == DaysFromCivil(date.y, date.m, date.d)

\* datetime.weekday(): Monday is 0 and Sunday 6; day 0 was a Thursday
Weekday(z) == (z + 3) % 7

\* 2^s modulo 10000
RECURSIVE Pow2Mod(_)
Pow2Mod(s) == IF s = 0 THEN 1 ELSE (2 * Pow2Mod(s - 1)) % 10000

\* the binary exponent e of the double that holds x / 10000, x >= 1:
\* 2^e <= x / 10000 < 2^(e + 1)
RECURSIVE BinaryExponent(_)
BinaryExponent(x) ==
    IF x >= 20000 THEN BinaryExponent(x \div 2) + 1
    ELSE IF x < 10000 THEN BinaryExponent(2 * x) - 1
    ELSE 0

\* round(x, 2) of a rainfall in 1/10000 mm. round() rounds the binary
\* double that holds the value, correctly: a value whose third decimal is
\* 5 is a tie only when the double holds it exactly, and then goes to the
\* even digit; otherwise it goes down or up as the double, with its 53-bit
\* significand, lies below or above the decimal value. below is the
\* remainder of x * 2^(52 - e) by 10000: the significand was rounded down
\* when it is under 5000.
Round2(x) ==
    LET q == x \div 100
        r == x % 100
        rem == ((x % 10000) * Pow2Mod(52 - BinaryExponent(x))) % 10000
        up == IF r # 50 THEN r > 50
              ELSE IF rem = 0 THEN q % 2 = 1
              ELSE rem > 5000
    IN IF up THEN (q + 1) * 100 ELSE q * 100

\* days_until_sunday without the step from 0 to 7
DaysUntilSundaySameDay(today) == (6 - Weekday(today)) % 7

\* days_until_sunday
DaysUntilSunday(today) ==
    LET days_until_sunday == (6 - Weekday(today)) % 7
    IN IF days_until_sunday = 0 THEN 7 ELSE days_until_sunday

\* the first loop of either branch: entry i of forecasts[:size], dates
\* holding the date of each of the size entries
Entries(forecasts, dates) ==
    [i \in 1..(IF Len(forecasts) < Len(dates) THEN Len(forecasts) ELSE Len(dates)) |->
        [date |-> dates[i],
         rainfall |-> Round2(forecasts[i].predicted_rainfall_mm)]]

\* next_date of the padding loops, from the text of the last entry's date:
\* the day after it (daily), the first day of the month after it (monthly)
NextDate(mode, last) ==
    LET last_date == CivilFromDays(Strptime(last))
    IN IF mode = "daily" THEN CivilFromDays(Strptime(last) + 1)
       ELSE IF last_date.m = 12
            THEN [y |-> last_date.y + 1, m |-> 1, d |-> 1]
            ELSE [y |-> last_date.y, m |-> last_date.m + 1, d |-> 1]

\* the padding loops: entries with rainfall 0.0 are appended up to size;
\* first is the date used when there is no entry yet
Pad(forecast_data, size, first, mode) ==
    LET padded[i \in 1..size] ==
            IF i <= Len(forecast_data) THEN forecast_data[i]
            ELSE [date |-> IF i > 1 THEN NextDate(mode, padded[i - 1].date)
                           ELSE first,
                  rainfall |-> 0]
    IN IF Len(forecast_data) >= size THEN forecast_data ELSE padded

\* a daily payload that keeps every forecast and is never padded
DailyPayloadUnbucketed(forecasts, today) ==
    Entries(forecasts,
            [i \in 1..Len(forecasts) |->
                CivilFromDays(today + DaysUntilSunday(today) + i - 1)])

\* the daily payload: the week from the Sunday after today
DailyPayload(forecasts, today) ==
    LET start_date == today + DaysUntilSunday(today)
    IN Pad(Entries(forecasts,
                   [i \in 1..DAILY_BUCKET |-> CivilFromDays(start_date + i - 1)]),
           DAILY_BUCKET, CivilFromDays(start_date), "daily")

\* the date of monthly entry i when the year is never advanced
MonthlyDateSameYear(today, i) ==
    [y |-> CivilFromDays(today).y,
     m |-> ((CivilFromDays(today).m + i - 1) % 12) + 1,
     d |-> 1]

\* datetime(year, month, 1) of monthly entry i (i = 0 is this month)
MonthlyDate(today, i) ==
    [y |-> CivilFromDays(today).y + (CivilFromDays(today).m + i - 1) \div 12,
     m |-> ((CivilFromDays(today).m + i - 1) % 12) + 1,
     d |-> 1]

\* a monthly payload that is never padded
MonthlyPayloadUnpadded(forecasts, today) ==
    Entries(forecasts, [i \in 1..MONTHLY_BUCKET |-> MonthlyDate(today, i - 1)])

\* the monthly payload: the first days of this month and the two after it
MonthlyPayload(forecasts, today) ==
    Pad(Entries(forecasts,
                [i \in 1..MONTHLY_BUCKET |-> MonthlyDate(today, i - 1)]),
        MONTHLY_BUCKET, MonthlyDate(today, 0), "monthly")

\* What the sink does with one request: it answers with a status code, or
\* the request raises (no connection, time-out)
SinkAnswers ==
    [kind : {"status"}, code : {200, 201, 204, 404, 500}]
    \cup {[kind |-> "raise", code |-> 0]}

\* forecast_publisher_agent when an exception of its try block is not
\* caught: it leaves the agent
PublishUncaught(state, posts) ==
    [state |-> state, posts |-> posts, raised |-> TRUE]

\* "except Exception" of forecast_publisher_agent: forecast_published is
\* set to False and the state is returned
PublishCaught(state, posts) ==
    [state |-> [k \in DOMAIN state \cup {"forecast_published"} |->
                  IF k = "forecast_published" THEN FALSE ELSE state[k]],
     posts |-> posts,
     raised |-> FALSE]

\* forecast_publisher_agent without its early return on an empty forecast
\* list: the payload is then all padding
ForecastPublisherUnguarded(state, today, answer) ==
    LET mode == ModeOf(state.intent)
        forecasts == IF mode = "daily" THEN state.forecasts
                     ELSE state.monthly_forecasts
        Flagged(v) == [k \in DOMAIN state \cup {"forecast_published"} |->
                         IF k = "forecast_published" THEN v ELSE state[k]]
        published == answer.kind = "status" /\ answer.code \in {200, 201}
        post == [endpoint |-> IF mode = "daily" THEN "/daily_forecast"
                              ELSE "/monthly_forecast",
                 json |-> IF mode = "daily"
                          THEN DailyPayload(forecasts, today)
                          ELSE MonthlyPayload(forecasts, today)]
    IN IF state.intent.mode = "null"
       THEN [state |-> state, posts |-> <<>>, raised |-> TRUE]
       ELSE IF mode \notin {"daily", "monthly"}
       THEN [state |-> state, posts |-> <<>>, raised |-> FALSE]
       ELSE IF answer.kind = "raise"
       THEN PublishCaught(state, <<post>>)
       ELSE [state |-> Flagged(published), posts |-> <<post>>, raised |-> FALSE]

\* forecast_publisher_agent: the state returned, the requests sent and
\* whether an exception left the agent. The key forecast_published is set
\* only by a branch that sent a request. A mode that is null has no
\* lower(): the AttributeError is raised before the try block.
ForecastPublisherAgent(state, today, answer) ==
    LET mode == ModeOf(state.intent)
        forecasts == IF mode = "daily" THEN state.forecasts
                     ELSE state.monthly_forecasts
        WithKey(v) == [k \in DOMAIN state \cup {"forecast_published"} |->
                         IF k = "forecast_published" THEN v ELSE state[k]]
        published == answer.kind = "status" /\ answer.code \in {200, 201}
        post == [endpoint |-> IF mode = "daily" THEN "/daily_forecast"
                              ELSE "/monthly_forecast",
                 json |-> IF mode = "daily"
                          THEN DailyPayload(forecasts, today)
                          ELSE MonthlyPayload(forecasts, today)]
    IN IF state.intent.mode = "null"
       THEN [state |-> state, posts |-> <<>>, raised |-> TRUE]
       ELSE IF forecasts = <<>> \/ mode \notin {"daily", "monthly"}
       THEN [state |-> state, posts |-> <<>>, raised |-> FALSE]
       ELSE IF answer.kind = "raise"
       THEN PublishCaught(state, <<post>>)
       ELSE [state |-> WithKey(published), posts |-> <<post>>, raised |-> FALSE]

\* the forecast lists handed to the publisher: n steps whose rainfall
\* follows pattern pat, rounded to 3 places as model_prediction_agent does;
\* 2.675 is a value whose double lies below it
PublishForecasts(pat, n) ==
    [i \in 1..n |->
        [step |-> i,
         predicted_rainfall_mm |->
             IF (i * pat) % 5 = 4 THEN 26750
             ELSE Round3(Max0(Expm1((i * pat) % 5)))]]

\* the days "today" ranges over: from 2027-11-24 into March 2028, across
\* the end of a year and the 29th of February
Days == LET first == DaysFromCivil(2027, 11, 24) IN first..(first + MaxDays)

InitPublish ==
    /\ pc = "publish"
    /\ \E mode \in {"daily", "Daily", "monthly", "unrelated", "null"},
          pat \in RawPatterns, n \in 0..MaxForecasts :
         st = [EmptyState EXCEPT
                 !.intent = [mode |-> mode, days |-> 0, months |-> 0,
                             confidence |-> 0],
                 !.forecasts = IF Lower(mode) = "daily"
                               THEN PublishForecasts(pat, n) ELSE <<>>,
                 !.monthly_forecasts = IF Lower(mode) = "daily" THEN <<>>
                                       ELSE PublishForecasts(pat, n)]
    /\ lp = NoLoop
    /\ env = NoExt
    /\ db = [q \in QueryIds |-> NoRow]
    /\ run = NoRun
    /\ trace = <<>>
    /\ resp = NoResp

\* one call of forecast_publisher_agent(state): env keeps the day and the
\* sink's answer of the call, trace the requests it sent; pc tells whether
\* the agent returned or an exception left it
Publish ==
    /\ pc = "publish"
    /\ \E today \in Days, answer \in SinkAnswers :
         LET out == ForecastPublisherAgent(st, today, answer)
         IN /\ st' = out.state
            /\ trace' = out.posts
            /\ env' = [today |-> today, answer |-> answer]
            /\ pc' = IF out.raised THEN "crashed" ELSE "published"
    /\ UNCHANGED <<lp, db, run, resp>>

NextPublish == Publish

SpecPublish == InitPublish /\ [][NextPublish]_vars

\* ------------------------------------------------------------------------
\* The scheduled tasks: generate_weekly_forecast and
\* generate_monthly_forecast run the graph of scheduled_forecast_graph.py
\* ------------------------------------------------------------------------
\* the edges of build_scheduled_forecast_graph when preprocess_data leads
\* straight to publish_forecast
ScheduledNextSkipping(node) ==
    CASE node = "START" -> "fetch_parameters"
      [] node = "fetch_parameters" -> "preprocess_data"
      [] node = "preprocess_data" -> "publish_forecast"
      [] node = "predict_model" -> "publish_forecast"
      [] node = "publish_forecast" -> "END"

\* the edges of build_scheduled_forecast_graph
ScheduledNext(node) ==
    CASE node = "START" -> "fetch_parameters"
      [] node = "fetch_parameters" -> "preprocess_data"
      [] node = "preprocess_data" -> "predict_model"
      [] node = "predict_model" -> "publish_forecast"
      [] node = "publish_forecast" -> "END"

\* What the agent of a node can return for state, over everything its
\* environment can do: the state, the requests sent to a sink and the
\* sink's answers to them. The graph hands the agents a config without the
\* artifact paths.
ScheduledResults(node, state) ==
    CASE node = "fetch_parameters" ->
           {[state |-> ParameterFetcherAgent(state, fetch), posts |-> <<>>,
             answers |-> <<>>] :
              fetch \in FetchOutcomes}
      [] node = "preprocess_data" ->
           {[state |-> PreprocessingAgent(state, pre), posts |-> <<>>,
             answers |-> <<>>] :
              pre \in PreprocessExt}
      [] node = "predict_model" ->
           {[state |-> ModelPredictionAgent(state, [model_paths |-> FALSE],
                                            load, NoExt),
             posts |-> <<>>, answers |-> <<>>] : load \in LoadExt}
      [] node = "publish_forecast" ->
           {[state |-> ForecastPublisherAgent(state, today, answer).state,
             posts |-> ForecastPublisherAgent(state, today, answer).posts,
             answers |-> IF ForecastPublisherAgent(state, today, answer).posts = <<>>
                         THEN <<>> ELSE <<answer>>] :
              today \in Days, answer \in SinkAnswers}

\* Before a job fires: the store is empty or holds a user's answered query
InitScheduled ==
    /\ pc = "scheduled"
    /\ st = EmptyState
    /\ lp = NoLoop
    /\ env = [posts |-> <<>>, answers |-> <<>>]
    /\ \E earlier \in BOOLEAN :
         db = [q \in QueryIds |->
                 IF earlier /\ q = 1
                 THEN [exists |-> TRUE, user_id |-> 1, query_text |-> "hello",
                       response_text |-> "an earlier answer", response |-> "",
                       writes |-> 1, created_at |-> 0]
                 ELSE NoRow]
    /\ run = [task |-> "", session_open |-> FALSE]
    /\ trace = <<>>
    /\ resp = NoResp

\* generate_weekly_forecast and generate_monthly_forecast up to
\* FORECAST_GRAPH.invoke: a session is opened with SessionLocal() and the
\* initial state is built around a synthetic intent
StartTask ==
    /\ pc = "scheduled"
    /\ \E task \in {"weekly", "monthly"} :
         /\ run' = [task |-> task, session_open |-> TRUE]
         /\ st' = [EmptyState EXCEPT
                     !.intent = IF task = "weekly"
                                THEN [mode |-> "daily", days |-> 7,
                                      months |-> 0, confidence |-> 0]
                                ELSE [mode |-> "monthly", days |-> 0,
                                      months |-> 3, confidence |-> 0]]
    /\ pc' = ScheduledNext("START")
    /\ UNCHANGED <<lp, env, db, trace, resp>>

\* a node of the scheduled graph runs its agent
ScheduledNode ==
    /\ pc \in {"fetch_parameters", "preprocess_data", "predict_model",
               "publish_forecast"}
    /\ \E out \in ScheduledResults(pc, st) :
         /\ st' = out.state
         /\ env' = [posts |-> env.posts \o out.posts,
                     answers |-> env.answers \o out.answers]
    /\ trace' = Append(trace, [node |-> pc, err |-> st.error])
    /\ pc' = ScheduledNext(pc)
    /\ UNCHANGED <<lp, db, run, resp>>

\* FORECAST_GRAPH.invoke returned: the task logs the result and ends; the
\* session it opened is not touched again
TaskEnd ==
    /\ pc = "END"
    /\ pc' = "task_done"
    /\ UNCHANGED <<st, lp, env, db, run, trace, resp>>

NextScheduled == StartTask \/ ScheduledNode \/ TaskEnd

SpecScheduled == InitScheduled /\ [][NextScheduled]_vars

\* ------------------------------------------------------------------------
\* Properties
\* ------------------------------------------------------------------------
\* the forecast list of a state whose intent has mode m
ForecastsOf(state, m) ==
    IF m = "daily" THEN state.forecasts ELSE state.monthly_forecasts

\* the horizon the caller asked for: the days or months of its intent
Requested(intent, m) == IF m = "daily" THEN intent.days ELSE intent.months

\* the nodes of the forecast path behind fetch_parameters
LaterStages == {"preprocess_data", "predict_model", "interpret_result"}

\* C1: after the classification the workflow goes to the fallback node if
\* and only if an error is set, no mode was produced, or the mode is neither
\* daily nor monthly; in every other case it goes to fetch_parameters.
C1_FallbackIffNotForecastable ==
    [][pc = "route_intent" =>
         LET mode == st.intent.mode
             forecastable == /\ st.error = NoError
                             /\ mode \notin {"absent", ""}
                             /\ Lower(mode) \in {"daily", "monthly"}
         IN /\ pc' = "fallback" <=> ~forecastable
            /\ forecastable => pc' = "fetch_parameters"]_vars

\* C1 (case reached): an unrelated intent without error was sent to fallback
C1_Witness ==
    /\ pc = "fallback"
    /\ st.intent.mode = "unrelated"
    /\ st.error = NoError

\* C2: once a stage behind the classification has set an error, no later
\* stage of the forecast path executes and nothing is written to the
\* session's record.
C2_ErrorShortCircuits ==
    /\ \A i \in DOMAIN trace :
         trace[i].node \in LaterStages => trace[i].err = NoError
    /\ (run.sid # 0 /\ st.error # NoError) => db[run.sid].writes = 0

\* C3: over one run of the interactive workflow the session's record is
\* written at most once.
C3_AtMostOneWrite ==
    \A q \in QueryIds : (q = run.sid /\ db[q].exists) => db[q].writes <= 1

\* C3 (case reached): the run ended after interpret_result wrote the
\* record and supervise_and_save executed
C3_Witness ==
    /\ pc = "done"
    /\ run.sid # 0
    /\ db[run.sid].writes = 1
    /\ \E i \in DOMAIN trace : trace[i].node = "supervise_and_save"

\* C4: when a run has ended, by whatever path, the session's record has
\* been written at least once.
C4_TerminalHasResponse ==
    (pc = "done" /\ run.sid # 0) => db[run.sid].writes >= 1

\* C5: a session whose workflow was left by an exception ends with a
\* response recorded in its record.
C5_CrashIsRecorded ==
    (pc = "done" /\ run.sid # 0 /\ resp.agent_status = "crash")
        => db[run.sid].response_text # ""

\* C6: for a window of the required length and a requested horizon h >= 1
\* the forecast loop returns exactly h steps, numbered 1..h, each with a
\* rainfall value >= 0.
C6_ExactlyHNonNegative ==
    /\ pc = "loop" =>
         \A i \in DOMAIN lp.forecasts :
           lp.forecasts[i].step = i /\ lp.forecasts[i].predicted_rainfall_mm >= 0
    /\ (pc = "returned" /\ st.error = NoError) =>
         LET m == ModeOf(st.intent)
             h == Requested(st.intent, m)
             seq == ForecastsOf(st, m)
         IN /\ h >= 1 => Len(seq) = h
            /\ \A i \in DOMAIN seq :
                 seq[i].step = i /\ seq[i].predicted_rainfall_mm >= 0

\* C6 (case reached): a monthly forecast of MaxHorizon steps came back from
\* a predictor whose output un-scales to a negative rainfall
C6_Witness ==
    /\ pc = "returned"
    /\ st.error = NoError
    /\ st.intent.mode = "monthly"
    /\ st.intent.months = MaxHorizon
    /\ Len(st.monthly_forecasts) = MaxHorizon
    /\ env.pid = 2 /\ env.inv_ok /\ env.fails = {}

\* C7: the horizon the classifier extracted from the query (its days or
\* months) is the horizon the forecast stage uses.
C7_HorizonFromClassifier ==
    (pc = "predict_model" /\ run.llm.kind = "json") =>
        LET m == ModeOf(st.intent)
        IN Requested(run.llm, m) # 0 =>
             Horizon(st.intent, m) = Requested(run.llm, m)

\* C8: the window has exactly N rows when feature engineering succeeds and
\* after every step of the loop, and a step drops the oldest row and
\* appends one.
C8_WindowKeepsN ==
    /\ [](LET N == WindowSize(ModeOf(st.intent))
          IN /\ (pc = "predict" /\ st.error = NoError)
                   => Len(st.preprocessed_window) = N
             /\ pc = "loop" => Len(lp.window_local) = N)
    /\ [][(pc = "loop" /\ lp'.k = lp.k + 1) =>
            /\ Len(lp'.window_local) = Len(lp.window_local)
            /\ SubSeq(lp'.window_local, 1, Len(lp.window_local) - 1)
                 = Tail(lp.window_local)]_vars

\* C8 (case reached): a monthly window after every step of the loop
C8_Witness ==
    /\ pc = "loop"
    /\ st.intent.mode = "monthly"
    /\ lp.k = MaxHorizon + 1
    /\ Len(lp.window_local) = MONTHLY_WINDOW

\* C9: a step at which the predictor call fails takes 0 as its scaled
\* prediction and still emits its forecast, and the loop ends with one
\* forecast per step of the horizon and no error.
C9_FailedStepYieldsZero ==
    /\ pc = "loop" =>
         /\ Len(lp.preds) = lp.k - 1
         /\ Len(lp.forecasts) = lp.k - 1
         /\ \A j \in DOMAIN lp.preds : j \in env.fails => lp.preds[j] = 0
    /\ (pc = "returned" /\ lp.k > 0) =>
         LET m == ModeOf(st.intent)
         IN /\ st.error = NoError
            /\ Len(ForecastsOf(st, m)) = Horizon(st.intent, m)

\* C9 (case reached): the loop returned after the predictor failed at
\* every one of MaxHorizon steps
C9_Witness ==
    /\ pc = "returned"
    /\ st.intent.days = MaxHorizon
    /\ env.fails = 1..MaxHorizon
    /\ Len(lp.preds) = MaxHorizon
    /\ Len(st.forecasts) = MaxHorizon

\* C10 (as stated): a series with fewer usable rows than the minimum
\* leaves feature engineering with the insufficient-data error and
\* without a window; a window is never shorter than N.
C10_InsufficientDataError ==
    pc = "predict" =>
        LET m == ModeOf(st.intent)
            N == WindowSize(m)
        IN /\ Len(UsableRows(st.nasa_parameters, m)) < N
                => /\ st.error = InsufficientData(m)
                   /\ st.preprocessed_window = <<>>
                   /\ st.preprocessed_data = <<>>
                   /\ st.scaled = <<>>
           /\ st.preprocessed_window # <<>> => Len(st.preprocessed_window) >= N

\* C10 (amended): a series with fewer usable rows than the minimum leaves
\* feature engineering with an error and without a window: an empty
\* series with "No NASA data found in state.", any other with the
\* insufficient-data error or, the scaler being loaded before the rows are
\* counted, with "Failed to load scaler"; a window is never shorter than
\* N.
C10_InsufficientRejected ==
    pc = "predict" =>
        LET m == ModeOf(st.intent)
            N == WindowSize(m)
        IN /\ Len(UsableRows(st.nasa_parameters, m)) < N
                => /\ st.error \in
                        (IF st.nasa_parameters.rows = <<>>
                         THEN {"No NASA data found in state."}
                         ELSE {InsufficientData(m), "Failed to load scaler"})
                   /\ st.preprocessed_window = <<>>
                   /\ st.preprocessed_data = <<>>
                   /\ st.scaled = <<>>
           /\ st.preprocessed_window # <<>> => Len(st.preprocessed_window) >= N

\* C10 (case reached): a daily series one usable row short was rejected
C10_Witness ==
    /\ pc = "predict"
    /\ st.intent.mode = "daily"
    /\ Len(st.nasa_parameters.rows) = DAILY_WINDOW + DAILY_ROLLING - 1
    /\ st.error = InsufficientData("daily")
    /\ st.preprocessed_window = <<>>

\* the two messages feature engineering gives for too few usable rows
InsufficientMessages == {InsufficientData("daily"), InsufficientData("monthly")}

\* C11: once feature engineering has failed for insufficient data, the
\* error the run carries stays that insufficient-data message through every
\* later stage, and the text written to the session's record is that
\* message.
C11_InsufficientSurfaced ==
    \A i \in DOMAIN trace :
        (trace[i].node = "predict_model" /\ trace[i].err \in InsufficientMessages)
            => /\ st.error = trace[i].err
               /\ (run.sid # 0 /\ db[run.sid].writes >= 1)
                     => db[run.sid].response_text = trace[i].err

\* C12: a daily series of 20 rows with one constant rainfall value passes
\* feature engineering, that is, preprocessing_agent returns without an
\* insufficient-data error and with a window, and a forecast returned for
\* it has one step per requested day.
C12_TwentyConstantRowsForecast ==
    LET rows == st.nasa_parameters.rows
    IN (/\ pc \in {"predict", "loop", "returned"}
        /\ st.intent.mode = "daily"
        /\ Len(rows) = 20
        /\ \A i \in DOMAIN rows : rows[i][TARGET_COL] = rows[1][TARGET_COL])
          => /\ st.error \notin InsufficientMessages
             /\ (pc = "returned" /\ st.error = NoError)
                   => Len(st.forecasts) = Horizon(st.intent, "daily")

\* the messages of Queries that hold "month" in some letter case
MonthQueries == {"Rainfall for the coming 2 Months", "daily rain this month"}

\* the intent the keyword rule gives for query q
KeywordIntent(q) ==
    IF q \in MonthQueries THEN [mode |-> "monthly", confidence |-> 70]
    ELSE [mode |-> "daily", confidence |-> 60]

\* the run's last node was detect_intent, called with a query
ClassifiedLast ==
    /\ trace # <<>>
    /\ trace[Len(trace)].node = "detect_intent"
    /\ st.user_query # ""

\* C13: whichever way the classifying capability fails (no client, the
\* call fails, the answer cannot be parsed), detect_intent does not raise
\* and returns the intent of the keyword rule.
C13_FallbackForEveryFailure ==
    (ClassifiedLast /\ (~run.client \/ run.llm.kind \in {"failed", "text"}))
        => /\ resp.agent_status # "crash"
           /\ st.intent.mode = KeywordIntent(st.user_query).mode
           /\ st.intent.confidence = KeywordIntent(st.user_query).confidence

\* C14: when the classifier's answer cannot be parsed, the intent's mode is
\* monthly exactly when the query holds "month" in any letter case and
\* daily otherwise, with confidence 0.7 for monthly and 0.6 for daily.
C14_KeywordRule ==
    (ClassifiedLast /\ run.client /\ run.llm.kind = "text")
        => /\ resp.agent_status # "crash"
           /\ st.intent.mode = KeywordIntent(st.user_query).mode
           /\ st.intent.confidence = KeywordIntent(st.user_query).confidence

\* C14 (case reached): an unparsable answer to a query spelling "Months"
\* with a capital gave monthly
C14_Witness ==
    /\ ClassifiedLast
    /\ run.client
    /\ run.llm.kind = "text"
    /\ st.user_query = "Rainfall for the coming 2 Months"
    /\ st.intent.mode = "monthly"

\* forecast_publisher_agent returned after sending a payload in mode m
Posted(m) ==
    /\ pc = "published"
    /\ ModeOf(st.intent) = m
    /\ trace # <<>>

\* C15: the daily payload built from a forecast list of length n >= 1 has
\* exactly 7 entries; entry i <= min(n, 7) carries the i-th forecast value
\* rounded to 2 decimal places, the remaining entries carry 0.0, forecasts
\* beyond the 7th are dropped, and the 7 dates are consecutive days in
\* increasing order.
C15_DailyBucket ==
    (pc = "published" /\ ModeOf(st.intent) = "daily" /\ Len(st.forecasts) >= 1)
        => /\ Len(trace) = 1
           /\ LET p == trace[1].json
                  n == Len(st.forecasts)
              IN /\ Len(p) = 7
                 /\ \A i \in 1..7 :
                      IF i <= n
                      THEN LET v == st.forecasts[i].predicted_rainfall_mm
                           IN /\ p[i].rainfall % 100 = 0
                              /\ p[i].rainfall - v <= 50
                              /\ v - p[i].rainfall <= 50
                      ELSE p[i].rainfall = 0
                 /\ \A i \in 1..6 : Strptime(p[i + 1].date) = Strptime(p[i].date) + 1

\* C15 (as stated): entry i <= min(n, 7) of the daily payload carries the
\* i-th forecast value itself.
C15_DailyBucketExact ==
    Posted("daily")
        => \A i \in 1..Len(trace[1].json) :
             i <= Len(st.forecasts)
               => trace[1].json[i].rainfall = st.forecasts[i].predicted_rainfall_mm

\* C15 (case reached): a list longer than the bucket was published, its
\* first value 1.718 as 1.72
C15_Witness ==
    /\ Posted("daily")
    /\ Len(st.forecasts) > DAILY_BUCKET
    /\ Len(trace[1].json) = DAILY_BUCKET
    /\ st.forecasts[1].predicted_rainfall_mm = 17180
    /\ trace[1].json[1].rainfall = 17200

\* C16: for every length of the forecast list, the empty list included, the
\* publisher produces a payload of exactly the bucket size: 7 entries in
\* daily mode and 3 in monthly mode.
C16_AlwaysBucketSize ==
    (pc = "published" /\ ModeOf(st.intent) \in {"daily", "monthly"})
        => /\ Len(trace) = 1
           /\ Len(trace[1].json) = IF ModeOf(st.intent) = "daily"
                                   THEN DAILY_BUCKET ELSE MONTHLY_BUCKET

\* C17: whatever day today is, the first date of the daily payload is a
\* Sunday, the first one strictly after today (7 days ahead when today is a
\* Sunday), and the 7 dates are that Sunday to the Saturday after it.
C17_NextSundayWeek ==
    Posted("daily")
        => LET p == trace[1].json
               first == Strptime(p[1].date)
           IN /\ Weekday(first) = 6
              /\ first > env.today
              /\ first <= env.today + 7
              /\ Weekday(env.today) = 6 => first = env.today + 7
              /\ \A i \in DOMAIN p :
                   /\ Strptime(p[i].date) = first + i - 1
                   /\ Weekday(Strptime(p[i].date)) = (5 + i) % 7
              /\ Len(p) = 7

\* C17 (case reached): published on a Sunday, for the week after
C17_Witness ==
    /\ Posted("daily")
    /\ Weekday(env.today) = 6
    /\ Strptime(trace[1].json[1].date) = env.today + 7

\* the month after the month of date
MonthAfter(date) ==
    IF date.m = 12 THEN [y |-> date.y + 1, m |-> 1, d |-> 1]
    ELSE [y |-> date.y, m |-> date.m + 1, d |-> 1]

\* C18: whatever month m of year y today lies in, the monthly payload is
\* dated with the first day of m, of the month after and of the month after
\* that, the year going up by one exactly where December is passed; padded
\* entries continue the same sequence.
C18_ThreeMonths ==
    Posted("monthly")
        => LET p == trace[1].json
               now == CivilFromDays(env.today)
           IN /\ Len(p) = 3
              /\ p[1].date = [y |-> now.y, m |-> now.m, d |-> 1]
              /\ p[2].date = MonthAfter(p[1].date)
              /\ p[3].date = MonthAfter(p[2].date)

\* C18 (case reached): one forecast published in a November, the padded
\* third entry dated January of the year after
C18_Witness ==
    /\ Posted("monthly")
    /\ Len(st.monthly_forecasts) = 1
    /\ CivilFromDays(env.today).m = 11
    /\ trace[1].json[3].date = [y |-> CivilFromDays(env.today).y + 1, m |-> 1, d |-> 1]

\* C19: when the request to the sink fails at transport level, the
\* publisher sends the same payload again, up to 3 attempts, and reports
\* failure only after more than one failed attempt.
C19_RetriesTransportFailure ==
    (pc = "published" /\ trace # <<>> /\ env.answer.kind = "raise")
        => /\ Len(trace) > 1
           /\ Len(trace) <= 3
           /\ \A i \in DOMAIN trace : trace[i] = trace[1]

\* C20: the publisher reports success exactly when the sink answers with a
\* status from 200 to 299; any other status is reported as failure after
\* the single attempt.
C20_SuccessIffTwoHundreds ==
    (pc = "published" /\ trace # <<>> /\ env.answer.kind = "status")
        => /\ st.forecast_published
                 <=> (env.answer.code >= 200 /\ env.answer.code <= 299)
           /\ Len(trace) = 1

\* C21: a call of the publisher whose request fails (the request raises, or
\* the sink answers outside 200..299) returns: no exception leaves it, the
\* state it returns has forecast_published False, and the forecasts, the
\* intent and the error of the state are the ones it was given.
C21_PublishFailureKeepsRun ==
    [][(/\ pc = "publish"
        /\ pc' # "publish"
        /\ trace' # <<>>
        /\ \/ env'.answer.kind = "raise"
           \/ env'.answer.code < 200
           \/ env'.answer.code > 299)
         => /\ pc' = "published"
            /\ st'.forecast_published = FALSE
            /\ st'.forecasts = st.forecasts
            /\ st'.monthly_forecasts = st.monthly_forecasts
            /\ st'.intent = st.intent
            /\ st'.error = st.error]_vars

\* C21 (case reached): the request raised and the publisher returned the
\* forecast with forecast_published False
C21_Witness ==
    /\ pc = "published"
    /\ trace # <<>>
    /\ env.answer.kind = "raise"
    /\ st.forecast_published = FALSE
    /\ Len(st.forecasts) >= 1

\* C22: one call of the publisher sends at most one request; a request to
\* the daily sink is sent only in daily mode and carries exactly 7 entries,
\* a request to the monthly sink only in monthly mode and carries exactly 3.
C22_CompleteBucketOneSink ==
    pc = "published"
        => /\ Len(trace) <= 1
           /\ \A i \in DOMAIN trace :
                \/ /\ trace[i].endpoint = "/daily_forecast"
                   /\ ModeOf(st.intent) = "daily"
                   /\ Len(trace[i].json) = 7
                \/ /\ trace[i].endpoint = "/monthly_forecast"
                   /\ ModeOf(st.intent) = "monthly"
                   /\ Len(trace[i].json) = 3

\* C22 (case reached): a single monthly forecast went to the monthly sink
\* as a payload of 3 entries
C22_Witness ==
    /\ Posted("monthly")
    /\ Len(st.monthly_forecasts) = 1
    /\ trace[1].endpoint = "/monthly_forecast"
    /\ Len(trace[1].json) = 3

\* C23: when a scheduled task has ended, the persistence session it opened
\* for itself has been closed.
C23_SessionReleased ==
    pc = "task_done" => ~run.session_open

\* C27: a scheduled run starts from the synthetic intent of its task and,
\* once ended, has executed exactly fetch_parameters, preprocess_data,
\* predict_model and publish_forecast, in that order; no classification or
\* interpretation node runs at any point, and no record of the store is
\* ever changed.
C27_ScheduledStages ==
    /\ \A i \in DOMAIN trace :
         /\ i <= 4
         /\ trace[i].node = <<"fetch_parameters", "preprocess_data",
                              "predict_model", "publish_forecast">>[i]
    /\ pc \in {"END", "task_done"} => Len(trace) = 4
    /\ pc # "scheduled"
         => st.intent.mode = (IF run.task = "weekly" THEN "daily" ELSE "monthly")
    /\ \A q \in QueryIds :
         db[q] \in {NoRow,
                    [exists |-> TRUE, user_id |-> 1, query_text |-> "hello",
                     response_text |-> "an earlier answer", response |-> "",
                     writes |-> 1, created_at |-> 0]}

\* C27 (case reached): a monthly task ended after its four stages, the
\* user's record as it was
C27_Witness ==
    /\ pc = "task_done"
    /\ run.task = "monthly"
    /\ Len(trace) = 4
    /\ trace[4].node = "publish_forecast"
    /\ db[1].exists
    /\ db[1].writes = 1

\* C24: the intent the classification produced is the intent every later
\* stage works on: the agents that supervise_and_save runs are given an
\* intent with the mode detect_intent emitted.
C24_IntentKept ==
    Len(run.calls) > 1 => run.seen_intent.mode = st.intent.mode

\* C25: within one run the stages fetch, engineer, forecast and summarize
\* each execute at most once, counting the executions as a node of the
\* graph and the calls made by supervisory_agent.
C25_StagesRunOnce ==
    \A node \in {"fetch_parameters", "preprocess_data", "predict_model",
                 "interpret_result"} :
        Cardinality({i \in DOMAIN trace : trace[i].node = node})
          + Cardinality({i \in DOMAIN run.calls : run.calls[i] = node}) <= 1

\* C26: beside other sessions of the same user, interleaved in any way, the
\* run started for the record run.sid works on that record only: the state
\* carries its id and, once fetch_query has returned, the text of its
\* query, and no step of the run changes any other record.
C26_OwnRecordOnly ==
    /\ [](pc \notin {"start", "done"}
            => /\ st.session_id = run.sid
               /\ trace # <<>> => st.user_query = Strip(db[run.sid].query_text))
    /\ [][pc' # pc => \A q \in QueryIds \ {run'.sid} : db'[q] = db[q]]_vars

\* C26 (case reached): the run wrote its response to its own record while
\* the user's latest query, by created_at, was the one of another session,
\* stored under a lower id and answered
C26_Witness ==
    /\ pc = "done"
    /\ run.sid # 0
    /\ db[run.sid].writes >= 1
    /\ \E i \in DOMAIN trace : trace[i].node = "interpret_result"
    /\ \E q \in QueryIds :
         /\ q < run.sid
         /\ db[q].exists
         /\ db[q].created_at > db[run.sid].created_at
         /\ db[q].writes >= 1

\* C30: at every step of the forecast loop, the first included, the input
\* given to the predictor is one row, the last scaled row of the current
\* window.
C30_OneRowInput ==
    (pc = "loop" /\ lp.k <= Horizon(st.intent, ModeOf(st.intent)))
       => /\ Len(lp.X_input) = 1
          /\ lp.X_input[1] = lp.last_row_scaled

\* every path of the graph of main_graph.py from node ends at END within
\* fuel edges
RECURSIVE EndsWithin(_, _)
EndsWithin(node, fuel) ==
    \/ node = "END"
    \/ /\ fuel > 0
       /\ MainGraphNext(node) # {}
       /\ \A m \in MainGraphNext(node) : EndsWithin(m, fuel - 1)

\* C29: once the graph is running, the run reaches its terminal state, after
\* the fallback node or after the forecast path, within the five stage
\* executions of the longest path: no edge leads back and every stage is
\* followed by a stage or by the end. The graph of main_graph.py has the
\* same shape: each of its paths ends at END within seven edges.
C29_RunTerminates ==
    /\ <>(pc = "done")
    /\ [](Len(trace) <= 5)
    /\ [](pc = "supervise_and_save"
            => SupervisoryOutcomes(st, run.cfg, run.client, db) # {})
    /\ [](EndsWithin("query_fetcher", 7))

\* C29 (case reached): a run has ended after the fallback node returned
C29_Witness ==
    /\ pc = "done"
    /\ resp.agent_status # "crash"
    /\ Len(trace) = 1
    /\ trace[1].node = "fallback"

\* the covariates of the window: the columns of final_features that are
\* neither a lag nor a rolling feature
Covariates == {LogName(FEATURES[i]) : i \in DOMAIN FEATURES}

\* the rows of the loop's window that the loop synthesized: after k - 1
\* steps, the last k - 1 rows (all of them once the original rows are gone)
SynthesizedRows(ls) ==
    {i \in 1..Len(ls.window_local) : i > Len(ls.window_local) - (ls.k - 1)}

\* C31: at every step the synthesized row carries each covariate of the
\* window's last row unchanged, so in every synthesized row of the loop's
\* window every covariate equals its value in the last row of the original
\* window.
C31_CovariatesHeld ==
    pc = "loop"
      => \A i \in SynthesizedRows(lp) : \A c \in Covariates :
           lp.window_local[i][c]
             = st.preprocessed_window[Len(st.preprocessed_window)][c]

\* C31 (case reached): two rows were synthesized from a window whose last
\* two rows differ in a covariate
C31_Witness ==
    /\ pc = "loop"
    /\ lp.k >= 3
    /\ \E c \in Covariates :
         st.preprocessed_window[Len(st.preprocessed_window)][c]
           # st.preprocessed_window[Len(st.preprocessed_window) - 1][c]

\* the target column of the window w followed by the row r
TargetsWith(w, r) == [i \in 1..Len(w) + 1 |->
                        IF i <= Len(w) THEN w[i][LOG_TARGET] ELSE r[LOG_TARGET]]

\* C32: a step of the loop synthesizes a row whose lag1, lag3 and lag7 are
\* the target values 1, 3 and 7 rows before it in the window it was given
\* followed by that row, whether those rows are original or synthesized.
C32_LagsFromHistory ==
    [][(pc = "loop" /\ lp'.k = lp.k + 1)
         => LET row == lp'.window_local[Len(lp'.window_local)]
                seq == TargetsWith(lp.window_local, row)
                p == Len(seq)
            IN /\ p > 7
               /\ row["log_PRECTOTCORR_lag1"] = seq[p - 1]
               /\ row["log_PRECTOTCORR_lag3"] = seq[p - 3]
               /\ row["log_PRECTOTCORR_lag7"] = seq[p - 7]]_vars

\* C32 (case reached): a row synthesized at the third step or later, whose
\* three lags differ and whose lag1 is the target of a synthesized row
C32_Witness ==
    /\ pc = "loop"
    /\ lp.k >= 4
    /\ LET n == Len(lp.window_local)
           row == lp.window_local[n]
       IN /\ row["log_PRECTOTCORR_lag1"] # row["log_PRECTOTCORR_lag3"]
          /\ row["log_PRECTOTCORR_lag3"] # row["log_PRECTOTCORR_lag7"]
          /\ row["log_PRECTOTCORR_lag1"] = lp.window_local[n - 1][LOG_TARGET]

\* log_k of a step: what inverse_transform_prediction read back from the
\* inverse scaling for the prediction the step appended to preds
LogOfStep(before, after) ==
    InverseLog(after.preds[Len(after.preds)], before.last_row_scaled)

\* C33: the target column of the row a step synthesizes is
\* log_k, the value read back from the inverse scaling, for every value of
\* log_k, negative ones included.
C33_TargetIsLogK ==
    [][(pc = "loop" /\ lp'.k = lp.k + 1 /\ env.inv_ok)
         => lp'.window_local[Len(lp'.window_local)][LOG_TARGET]
              = LogOfStep(lp, lp')]_vars

\* C34: the rolling mean and deviation of the row a step synthesizes are
\* taken over as many points as feature engineering rolls over (7 daily, 3
\* monthly): the row's own log value and the 6 or 2 latest target values of
\* the window the step was given.
C34_RollingOverSpan ==
    [][(pc = "loop" /\ lp'.k = lp.k + 1)
         => LET mode == ModeOf(st.intent)
                row == lp'.window_local[Len(lp'.window_local)]
                points == TailN(TargetsWith(lp.window_local, row), RollingSpan(mode))
            IN /\ Len(points) = RollingSpan(mode)
               /\ Len(points) = LoopTail(mode) + 1
               /\ row["rain_rolling_mean"] = Mean(points)
               /\ row["rain_rolling_std"] = Std(points, 0)]_vars

\* C34 (case reached): a row was synthesized from a window where one more
\* or one fewer point would have changed the mean
C34_Witness ==
    /\ pc = "loop"
    /\ lp.k >= 3
    /\ LET span == RollingSpan(ModeOf(st.intent))
           targets == [i \in 1..Len(lp.window_local) |->
                         lp.window_local[i][LOG_TARGET]]
       IN /\ Mean(TailN(targets, span)) # NaN
          /\ Mean(TailN(targets, span)) # Mean(TailN(targets, span + 1))
          /\ Mean(TailN(targets, span)) # Mean(TailN(targets, span - 1))
          /\ lp.window_local[Len(lp.window_local)]["rain_rolling_mean"]
               = Mean(TailN(targets, span))

\* the raw table df with the rainfall of its last row reading v
LastRowReading(df, v) ==
    [df EXCEPT !.rows[Len(df.rows)][TARGET_COL] = v]

\* the table feature engineering builds from df, before dropna(): row i of
\* it belongs to raw row i
EngineeredTable(df, mode) ==
    LET repaired == RepairMissing(CompleteColumns(df))
    IN FeatureTable(IF mode = "daily" THEN DailyClean(repaired) ELSE repaired,
                    mode)

\* row i of the engineered table is one of the rows of the feature window
InWindow(table, i, mode) ==
    /\ NoNaN(table[i])
    /\ Cardinality({k \in i..Len(table) : NoNaN(table[k])}) <= WindowSize(mode)
    /\ Cardinality({k \in 1..Len(table) : NoNaN(table[k])}) >= WindowThreshold(mode)

LagAndRolling ==
    {"log_PRECTOTCORR_lag1", "log_PRECTOTCORR_lag3", "log_PRECTOTCORR_lag7",
     "rain_rolling_mean", "rain_rolling_std"}

\* C35: two raw tables that differ in the rainfall reading of their last
\* row only give every earlier row of the feature window the same lag and
\* rolling features: row i looks at raw rows up to i, also where missing
\* readings were repaired.
C35_NoLookahead ==
    (pc = "predict" /\ st.nasa_parameters.rows # <<>>)
      => \A v \in {0, 17183} : \A w \in {63891} :
           LET mode == ModeOf(st.intent)
               first == EngineeredTable(LastRowReading(st.nasa_parameters, v), mode)
               second == EngineeredTable(LastRowReading(st.nasa_parameters, w), mode)
           IN \A i \in 1..(Len(first) - 1) :
                (InWindow(first, i, mode) /\ InWindow(second, i, mode))
                  => \A c \in LagAndRolling : first[i][c] = second[i][c]

\* C36: the window is built with the columns final_features followed by the
\* transformed target, and a forecast step leaves it with the same columns
\* in the same order: the row it appends has exactly these columns, so the
\* last column is the target after every step.
C36_ColumnsFixed ==
    /\ st.preprocessed_window # <<>>
         => /\ WindowCols = st.final_features \o <<LOG_TARGET>>
            /\ \A i \in DOMAIN st.preprocessed_window :
                 DOMAIN st.preprocessed_window[i] = Range(WindowCols)
    /\ pc = "loop"
         => LET cols == ConcatColumns(WindowCols, NewRowColumns(st.final_features))
            IN /\ cols = WindowCols
               /\ cols[Len(cols)] = LOG_TARGET
               /\ \A i \in DOMAIN lp.window_local :
                    DOMAIN lp.window_local[i] = Range(cols)

\* C36 (case reached): the loop's window holds rows the loop appended
C36_Witness ==
    /\ pc = "loop"
    /\ lp.k >= 3
    /\ Len(lp.window_local) = WindowSize(ModeOf(st.intent))
    /\ lp.window_local # st.preprocessed_window

\* C37: in the graph of main_graph.py a run that intent_agent classified
\* daily or monthly goes to parameter_fetcher, a run classified unrelated to
\* final_unrelated_response, and a run with an error or any other intent to
\* final_error_handler.
C37_RouteAfterIntent ==
    pc \in {"parameter_fetcher", "final_unrelated_response", "final_error_handler"}
      => pc = IF st.error # NoError THEN "final_error_handler"
              ELSE IF st.intent.mode \in {"daily", "monthly"} THEN "parameter_fetcher"
              ELSE IF st.intent.mode = "unrelated" THEN "final_unrelated_response"
              ELSE "final_error_handler"

\* C38: whenever detect_intent returned, the mode of the intent it emitted
\* is daily or monthly; a classifier answer naming any other mode
\* (unrelated among them) has been replaced by daily; and with no error in
\* the state the router does not choose fallback, so the run is at fallback
\* only with an error set.
C38_ModeDailyOrMonthly ==
    /\ pc = "route_intent"
         => /\ st.intent.mode \in {"daily", "monthly"}
            /\ (/\ run.llm.kind = "json"
                /\ run.llm.mode \notin {"absent", "null"}
                /\ Lower(run.llm.mode) \notin {"daily", "monthly"})
                 => st.intent.mode = "daily"
            /\ st.error = NoError => route_intent(st) # "fallback"
    /\ pc = "fallback" => st.error # NoError

\* the classifier answered unrelated, detect_intent returned daily and the
\* router sent the run on to fetch_parameters
C38_Witness ==
    /\ pc = "fetch_parameters"
    /\ run.llm.kind = "json"
    /\ run.llm.mode = "unrelated"
    /\ st.intent.mode = "daily"
    /\ st.error = NoError

\* C39: the feature window, the feature-name list and the scaled window
\* that preprocess_data writes are fields of the workflow state, so when
\* preprocess_data has succeeded and the run stands before predict_model,
\* the state holds all three.
C39_EngineeredFieldsPresent ==
    (/\ pc = "predict_model"
     /\ st.error = NoError
     /\ st.preprocessed_data # <<>>)
      => /\ st.preprocessed_window # <<>>
         /\ st.final_features # <<>>
         /\ st.scaled # <<>>

\* C40: in a scheduled run a request reaches a sink only when the forecast
\* list of the intent's mode is not empty; a run in which fetch_parameters,
\* preprocess_data or predict_model left an error sends none; and
\* forecast_published is true only after the one request of the run was
\* answered with status 200 or 201.
C40_PublishOnlyForecasts ==
    pc \in {"END", "task_done"}
      => /\ env.posts # <<>>
              => (IF ModeOf(st.intent) = "daily" THEN st.forecasts
                  ELSE st.monthly_forecasts) # <<>>
         /\ st.error # NoError => env.posts = <<>>
         /\ ("forecast_published" \in DOMAIN st /\ st.forecast_published = TRUE)
              => /\ Len(env.posts) = 1
                 /\ Len(env.answers) = 1
                 /\ env.answers[1].kind = "status"
                 /\ env.answers[1].code \in {200, 201}

\* a scheduled monthly run in which fetch_parameters and preprocess_data
\* succeeded and predict_model failed: publish_forecast ran and sent nothing
C40_Witness ==
    /\ pc = "task_done"
    /\ run.task = "monthly"
    /\ Len(trace) = 4
    /\ trace[3].err = NoError
    /\ trace[4].node = "publish_forecast"
    /\ trace[4].err # NoError
    /\ st.monthly_forecasts = <<>>
    /\ env.posts = <<>>
====
